---- MODULE Spec2Model ----
(***************************************************************************)
(* DataJourney: the ETL pipeline scripts of src/backend/pipelines.         *)
(* One process runs one pipeline script: the script constructs the         *)
(* pipeline (reading the configuration and the environment), run() walks   *)
(* the stage list, every stage is dispatched to its handler, the load      *)
(* stage rewrites the destination table, and the script exits.  The        *)
(* destination tables outlive the process, so a second run of the same     *)
(* script starts from the tables the first one left.                       *)
(***************************************************************************)
EXTENDS Integers, Sequences, FiniteSets, TLC

\* ------------------------------------------------------------------ bounds
MaxRows == 2        \* ids of the rows an upstream source can deliver
MaxRuns == 2        \* runs of the script in succession

RowIds == 1..MaxRows

\* an Optional[...] attribute: None, or Some(v)
None == <<>>
Some(v) == <<v>>

\* ------------------------------------------------------------- pipelines
ConfigPipelines ==
    {"pokemon_data", "crypto_market", "weather_analytics", "spacex_launches",
     "thailand_hotels", "csv_kaggle", "network_traffic", "hackernews_scraper"}

ScriptPipelines == {"stock_market", "crypto_prices", "shipping_disruption"}

Pipelines == ConfigPipelines \cup ScriptPipelines

UnknownStage == "unknown_stage"

\* the stage ids each dispatcher knows, in the order of its if/elif chain;
\* for the three scripts without a stage list, the calls of run()/main()
KnownStages(p) ==
    CASE p = "pokemon_data" ->
           <<"extract_pokeapi", "transform_pokemon", "branch_legendary",
             "process_legendary", "process_non_legendary", "merge_and_load">>
      [] p = "crypto_market" ->
           <<"extract_crypto_metadata", "diamond_split_init",
             "extract_spot_prices", "extract_24h_data", "extract_7d_trends",
             "cross_validate_timeframes", "feedback_enrich_spot",
             "classify_anomalies", "merge_final_data", "load_crypto_data">>
      [] p = "weather_analytics" ->
           <<"initiate_parallel_fetch", "fetch_north_america", "fetch_europe",
             "fetch_asia", "merge_regional_data", "transform_weather_data",
             "load_weather_data">>
      [] p = "spacex_launches" ->
           <<"extract_spacex_data", "enrich_and_join", "data_quality_branch",
             "process_complete_data", "process_incomplete_data",
             "merge_enrich_load">>
      [] p = "thailand_hotels" ->
           <<"extract_kaggle_data", "transform_hotel_data", "load_to_postgres">>
      [] p = "csv_kaggle" ->
           <<"extract_shopping_data", "extract_games_data",
             "transform_shopping", "transform_games", "merge_datasets",
             "load_shopping_to_postgres", "load_games_to_postgres",
             "load_merged_to_postgres">>
      [] p = "network_traffic" ->
           <<"extract_kaggle_traffic", "analyze_traffic_patterns",
             "calculate_risk_scores", "load_traffic_data">>
      [] p = "hackernews_scraper" ->
           <<"scrape_hackernews", "transform_posts", "load_posts">>
      [] p = "stock_market" ->
           <<"_stage_extract", "_stage_technical_indicators",
             "_stage_market_context", "_stage_load">>
      [] p = "crypto_prices" ->
           <<"fetch_prices", "load_prices">>
      [] p = "shipping_disruption" ->
           <<"load_ports", "load_positions", "compute_metrics", "load_scores">>

Range(s) == {s[i] : i \in 1..Len(s)}

IsKnown(p, sid) == sid \in Range(KnownStages(p))

\* branches of the dispatcher that are a bare `pass` / log line
NoOpStages(p) ==
    CASE p = "crypto_market" ->
           {"diamond_split_init", "extract_spot_prices", "extract_24h_data"}
      [] p = "weather_analytics" ->
           {"fetch_north_america", "fetch_europe", "fetch_asia"}
      [] OTHER -> {}

\* the else branch of the dispatcher: raise ValueError, or only log a warning
UnknownStageRaises(p) == p \notin {"network_traffic", "hackernews_scraper"}

\* __init__ raises ValueError when AIVEN_PG_URI is not set
CtorChecksAiven(p) ==
    p \in {"pokemon_data", "crypto_market", "weather_analytics",
           "spacex_launches", "thailand_hotels", "csv_kaggle"}

\* run() catches every exception of the stage loop and returns False
RunCatches(p) == p \in ConfigPipelines

\* the load stages and the table each one writes
LoadStages(p) ==
    CASE p = "pokemon_data" -> {"merge_and_load"}
      [] p = "crypto_market" -> {"load_crypto_data"}
      [] p = "weather_analytics" -> {"load_weather_data"}
      [] p = "spacex_launches" -> {"merge_enrich_load"}
      [] p = "thailand_hotels" -> {"load_to_postgres"}
      [] p = "csv_kaggle" -> {"load_shopping_to_postgres",
                              "load_games_to_postgres",
                              "load_merged_to_postgres"}
      [] p = "network_traffic" -> {"load_traffic_data"}
      [] p = "hackernews_scraper" -> {"load_posts"}
      [] p = "stock_market" -> {"_stage_load"}
      [] p = "crypto_prices" -> {"load_prices"}
      [] p = "shipping_disruption" -> {"load_scores"}

\* a table is named by the load stage that writes it
TablesOf(p) == LoadStages(p)

\* ------------------------------------------------------------- datasets
\* A dataset is the set of the ids of its rows.  The attributes of a pipeline
\* object that hold datasets, with their values after __init__:
InitData(p) ==
    CASE p = "pokemon_data" ->
           [df |-> None, legendary_df |-> None, non_legendary_df |-> None]
      [] p = "crypto_market" ->
           [crypto_metadata |-> None, spot_prices_df |-> None,
            hourly_24h_df |-> None, daily_7d_df |-> None,
            cross_validation_df |-> None, enriched_spot_df |-> None,
            anomalies_df |-> None, final_df |-> None]
      [] p = "weather_analytics" ->
           [regional_dfs |-> Some({}), merged_df |-> None, final_df |-> None]
      [] p = "spacex_launches" ->
           [launches_df |-> None, complete_data_df |-> None,
            incomplete_data_df |-> None, final_df |-> None]
      [] p = "thailand_hotels" -> [df |-> None]
      [] p = "csv_kaggle" ->
           [shopping_df |-> None, games_df |-> None, merged_df |-> None]
      [] p = "network_traffic" -> [df |-> None]
      [] p = "hackernews_scraper" -> [posts |-> Some({}), df |-> None]
      [] p = "stock_market" -> [df |-> None]
      [] p = "crypto_prices" -> [rows |-> None]
      [] p = "shipping_disruption" ->
           [ports |-> None, positions |-> None, scores |-> None]

\* the rows a branch predicate selects (is_legendary | is_mythical,
\* completeness_score >= 0.8)
BranchTrueIds == {1}

NonEmpty(o) == o # None /\ o[1] # {}

\* the attributes a handler reads before it writes anything: a None there,
\* or an empty frame without the columns it indexes, makes the handler raise
StageCanComplete(p, sid, d) ==
    CASE p = "pokemon_data" /\ sid = "transform_pokemon" -> NonEmpty(d.df)
      [] p = "pokemon_data" /\ sid = "branch_legendary" -> NonEmpty(d.df)
      [] p = "pokemon_data" /\ sid = "process_legendary" ->
           d.legendary_df # None
      [] p = "pokemon_data" /\ sid = "process_non_legendary" ->
           d.non_legendary_df # None
      [] p = "pokemon_data" /\ sid = "merge_and_load" ->
           d.legendary_df # None /\ d.non_legendary_df # None
      [] p = "crypto_market" /\ sid = "cross_validate_timeframes" ->
           d.spot_prices_df # None /\ d.hourly_24h_df # None
           /\ d.daily_7d_df # None
      [] p = "crypto_market" /\ sid = "feedback_enrich_spot" ->
           d.spot_prices_df # None /\ d.cross_validation_df # None
      [] p = "crypto_market" /\ sid = "classify_anomalies" ->
           d.enriched_spot_df # None
      [] p = "crypto_market" /\ sid = "merge_final_data" ->
           d.anomalies_df # None /\ d.crypto_metadata # None
      [] p = "crypto_market" /\ sid = "load_crypto_data" -> d.final_df # None
      [] p = "weather_analytics" /\ sid = "merge_regional_data" ->
           NonEmpty(d.regional_dfs)
      [] p = "weather_analytics" /\ sid = "transform_weather_data" ->
           d.merged_df # None
      [] p = "weather_analytics" /\ sid = "load_weather_data" ->
           d.final_df # None
      [] p = "spacex_launches" /\ sid = "enrich_and_join" ->
           d.launches_df # None
      [] p = "spacex_launches" /\ sid = "data_quality_branch" ->
           d.launches_df # None
      [] p = "spacex_launches" /\ sid = "merge_enrich_load" ->
           NonEmpty(d.complete_data_df) \/ NonEmpty(d.incomplete_data_df)
      [] p = "thailand_hotels" /\ sid = "transform_hotel_data" -> d.df # None
      [] p = "thailand_hotels" /\ sid = "load_to_postgres" -> d.df # None
      [] p = "csv_kaggle" /\ sid = "transform_shopping" ->
           d.shopping_df # None
      [] p = "csv_kaggle" /\ sid = "transform_games" -> d.games_df # None
      [] p = "csv_kaggle" /\ sid = "merge_datasets" ->
           d.shopping_df # None /\ d.games_df # None
      [] p = "csv_kaggle" /\ sid = "load_shopping_to_postgres" ->
           d.shopping_df # None
      [] p = "csv_kaggle" /\ sid = "load_games_to_postgres" ->
           d.games_df # None
      [] p = "network_traffic" /\ sid = "analyze_traffic_patterns" ->
           d.df # None
      [] p = "network_traffic" /\ sid = "calculate_risk_scores" ->
           d.df # None
      [] p = "hackernews_scraper" /\ sid = "transform_posts" ->
           NonEmpty(d.posts)
      [] OTHER -> TRUE

\* stock_market: pd.concat of an empty list raises in _stage_extract
ExtractCanComplete(p, sid, src) ==
    ~(p = "stock_market" /\ sid = "_stage_extract" /\ src = {})

\* what a handler that completes leaves in the attributes; src is what the
\* upstream source delivers during this run
StageEffect(p, sid, d, src) ==
    CASE p = "pokemon_data" /\ sid = "extract_pokeapi" ->
           [d EXCEPT !.df = Some(src)]
      [] p = "pokemon_data" /\ sid = "branch_legendary" ->
           [d EXCEPT !.legendary_df = Some(d.df[1] \cap BranchTrueIds),
                     !.non_legendary_df = Some(d.df[1] \ BranchTrueIds)]
      [] p = "pokemon_data" /\ sid = "merge_and_load" ->
           [d EXCEPT !.df = Some(d.legendary_df[1] \cup d.non_legendary_df[1])]
      [] p = "crypto_market" /\ sid = "extract_crypto_metadata" ->
           [d EXCEPT !.crypto_metadata =
                        Some(IF src = {} THEN RowIds ELSE src)]
      [] p = "crypto_market" /\ sid = "extract_7d_trends" ->
           LET got == IF src = {} THEN RowIds ELSE src
           IN  [d EXCEPT !.spot_prices_df = Some(got),
                         !.hourly_24h_df = Some(got),
                         !.daily_7d_df = Some(got)]
      [] p = "crypto_market" /\ sid = "cross_validate_timeframes" ->
           [d EXCEPT !.cross_validation_df = d.spot_prices_df]
      [] p = "crypto_market" /\ sid = "feedback_enrich_spot" ->
           [d EXCEPT !.enriched_spot_df = d.spot_prices_df]
      [] p = "crypto_market" /\ sid = "classify_anomalies" ->
           [d EXCEPT !.anomalies_df = d.enriched_spot_df]
      [] p = "crypto_market" /\ sid = "merge_final_data" ->
           [d EXCEPT !.final_df = d.anomalies_df]
      [] p = "weather_analytics" /\ sid = "initiate_parallel_fetch" ->
           [d EXCEPT !.regional_dfs = Some(d.regional_dfs[1] \cup src)]
      [] p = "weather_analytics" /\ sid = "merge_regional_data" ->
           [d EXCEPT !.merged_df = d.regional_dfs]
      [] p = "weather_analytics" /\ sid = "transform_weather_data" ->
           [d EXCEPT !.final_df = d.merged_df]
      [] p = "spacex_launches" /\ sid = "extract_spacex_data" ->
           [d EXCEPT !.launches_df = Some(src)]
      [] p = "spacex_launches" /\ sid = "data_quality_branch" ->
           [d EXCEPT !.complete_data_df =
                        Some(d.launches_df[1] \cap BranchTrueIds),
                     !.incomplete_data_df =
                        Some(d.launches_df[1] \ BranchTrueIds)]
      [] p = "spacex_launches" /\ sid = "merge_enrich_load" ->
           [d EXCEPT !.final_df =
                Some((IF NonEmpty(d.complete_data_df)
                         THEN d.complete_data_df[1] ELSE {})
                     \cup (IF NonEmpty(d.incomplete_data_df)
                              THEN d.incomplete_data_df[1] ELSE {}))]
      [] p = "thailand_hotels" /\ sid = "extract_kaggle_data" ->
           [d EXCEPT !.df = Some(src)]
      [] p = "csv_kaggle" /\ sid = "extract_shopping_data" ->
           [d EXCEPT !.shopping_df = Some(src)]
      [] p = "csv_kaggle" /\ sid = "extract_games_data" ->
           [d EXCEPT !.games_df = Some(src)]
      [] p = "csv_kaggle" /\ sid = "merge_datasets" ->
           [d EXCEPT !.merged_df =
                Some(IF d.shopping_df[1] = {} \/ d.games_df[1] = {}
                        THEN {} ELSE d.shopping_df[1])]
      [] p = "network_traffic" /\ sid = "extract_kaggle_traffic" ->
           [d EXCEPT !.df = Some(src)]
      [] p = "hackernews_scraper" /\ sid = "scrape_hackernews" ->
           [d EXCEPT !.posts = Some(d.posts[1] \cup src)]
      [] p = "hackernews_scraper" /\ sid = "transform_posts" ->
           [d EXCEPT !.df = d.posts]
      [] p = "stock_market" /\ sid = "_stage_extract" ->
           [d EXCEPT !.df = Some(src)]
      [] p = "crypto_prices" /\ sid = "fetch_prices" ->
           [d EXCEPT !.rows = Some(src)]
      [] p = "shipping_disruption" /\ sid = "load_ports" ->
           [d EXCEPT !.ports = Some(src)]
      [] p = "shipping_disruption" /\ sid = "load_positions" ->
           [d EXCEPT !.positions = Some(src)]
      [] p = "shipping_disruption" /\ sid = "compute_metrics" ->
           [d EXCEPT !.scores = d.ports]
      [] OTHER -> d

\* the dataset a load stage writes (evaluated after StageEffect)
LoadInput(p, sid, d) ==
    CASE p = "pokemon_data" -> d.df
      [] p = "crypto_market" -> d.final_df
      [] p = "weather_analytics" -> d.final_df
      [] p = "spacex_launches" -> d.final_df
      [] p = "thailand_hotels" -> d.df
      [] p = "csv_kaggle" /\ sid = "load_shopping_to_postgres" -> d.shopping_df
      [] p = "csv_kaggle" /\ sid = "load_games_to_postgres" -> d.games_df
      [] p = "csv_kaggle" /\ sid = "load_merged_to_postgres" -> d.merged_df
      [] p = "network_traffic" -> d.df
      [] p = "hackernews_scraper" -> d.df
      [] p = "stock_market" -> d.df
      [] p = "crypto_prices" -> d.rows
      [] p = "shipping_disruption" -> d.scores

\* ---------------------------------------------------------------- tables
\* A table is absent (NoTable) or holds a set of rows under a column set.
\* A row is <<id, stamp>>: the stamp is the run's timestamp column where the
\* pipeline writes one (processed_at, scraped_at, score_time, fetched_at).
NoTable == None

Table(rows, cols) == Some([rows |-> rows, cols |-> cols])

StampsRows(p) == p \notin {"thailand_hotels", "csv_kaggle", "stock_market"}

RowsOf(p, ids, clk) == {<<i, IF StampsRows(p) THEN clk ELSE 0>> : i \in ids}

DatasetColumns(p) ==
    IF StampsRows(p) THEN {"id", "stamp"} ELSE {"id"}

\* how the load stage writes: DROP TABLE + to_sql(if_exists='replace'),
\* TRUNCATE + INSERT, or INSERT ... ON CONFLICT DO NOTHING
LoadKind(p) ==
    CASE p = "crypto_prices" -> "truncate"
      [] p = "shipping_disruption" -> "append"
      [] OTHER -> "replace"

\* `if self.merged_df is None or len(self.merged_df) == 0: return`
SkipsEmptyInput(p, sid) == p = "csv_kaggle" /\ sid = "load_merged_to_postgres"

\* the load stage starts with `if self.<df> is None: raise ValueError`
\* (pokemon and spacex raise in the merge that precedes the load)
LoadGuarded(p) == p \notin {"network_traffic", "hackernews_scraper"}

\* each CREATE INDEX sits in its own try/except that logs a warning
IndexesGuarded(p) ==
    p \notin {"stock_market", "crypto_prices", "shipping_disruption"}

\* the load stage ends with SELECT COUNT(*) FROM table
HasVerify(p) ==
    p \in {"pokemon_data", "crypto_market", "weather_analytics",
           "spacex_launches", "thailand_hotels", "csv_kaggle"}

\* engine.dispose() / conn.close() is the last statement of the try block
ClosesOnSuccess(p) ==
    p \notin {"network_traffic", "hackernews_scraper", "stock_market"}

\* index_columns of the destination descriptor (two columns of the dataset);
\* the three scripts without configuration create a fixed list of indexes
IndexCount(p) ==
    CASE p = "stock_market" -> 4
      [] p = "crypto_prices" -> 3
      [] p = "shipping_disruption" -> 2
      [] OTHER -> 2

\* the steps of a load stage at which the database can fail
Faults == {"none", "connect", "ensure", "drop", "write", "index_conn",
           "verify"}

\* AIVEN_PG_URI or DATABASE_URL
ResolvesUrl(e) == e.aiven \/ e.dburl

\* the indexes attempted, given the set idxFail of those whose CREATE INDEX
\* fails: all of them under try/except, up to the first failure otherwise
IndexAttempts(p, idxFail) ==
    IF IndexesGuarded(p) THEN 1..IndexCount(p)
    ELSE {i \in 1..IndexCount(p) : \A j \in 1..(i-1) : j \notin idxFail}

\* (mutant) to_sql commits chunk by chunk: a failed write leaves the rows of
\* the chunks already written
LoadReplace_partial(p, sid, prior, input, clk, e, mkIdx, fault, idxFail) ==
    [table |-> IF input # None /\ ResolvesUrl(e) /\ fault \notin {"connect", "drop"}
                  THEN Table(RowsOf(p, IF fault = "write"
                                          THEN input[1] \cap {1}
                                          ELSE input[1], clk),
                             DatasetColumns(p))
                  ELSE prior,
     raised |-> input = None \/ ~ResolvesUrl(e) \/ fault # "none",
     skipped |-> FALSE, opened |-> TRUE, closed |-> FALSE,
     written |-> fault \notin {"connect", "drop", "write"},
     idxAttempted |-> {}, idxFailed |-> {}, countQueried |-> FALSE,
     errorLogged |-> FALSE]

\* (mutant) to_sql(if_exists='append') without the DROP TABLE
LoadReplace_appending(p, sid, prior, input, clk, e, mkIdx, fault, idxFail) ==
    [table |-> IF input # None /\ ResolvesUrl(e) /\ fault = "none"
                  THEN Table((IF prior = NoTable THEN {} ELSE prior[1].rows)
                               \cup RowsOf(p, input[1], clk),
                             DatasetColumns(p))
                  ELSE prior,
     raised |-> input = None \/ ~ResolvesUrl(e) \/ fault # "none",
     skipped |-> FALSE, opened |-> TRUE, closed |-> FALSE,
     written |-> fault = "none",
     idxAttempted |-> {}, idxFailed |-> {}, countQueried |-> FALSE,
     errorLogged |-> FALSE]

\* DROP TABLE + to_sql + indexes + count, as the eight pipelines write it
LoadReplace(p, sid, prior, input, clk, e, mkIdx, fault, idxFail) ==
    LET new == IF input = None THEN NoTable
               ELSE Table(RowsOf(p, input[1], clk), DatasetColumns(p))
        base == [table |-> prior, raised |-> FALSE, skipped |-> FALSE,
                 opened |-> FALSE, closed |-> FALSE, written |-> FALSE,
                 idxAttempted |-> {}, idxFailed |-> {},
                 countQueried |-> FALSE, errorLogged |-> FALSE]
        doIdx == mkIdx \/ p = "stock_market"
        att == IF doIdx THEN IndexAttempts(p, idxFail) ELSE {}
        failed == att \cap idxFail
    IN  IF SkipsEmptyInput(p, sid) /\ ~NonEmpty(input)
          THEN [base EXCEPT !.skipped = TRUE]
        ELSE IF LoadGuarded(p) /\ input = None
          THEN [base EXCEPT !.raised = TRUE, !.errorLogged = TRUE]
        ELSE IF ~ResolvesUrl(e) \/ fault = "connect"
          THEN [base EXCEPT !.raised = TRUE, !.errorLogged = TRUE]
        ELSE IF fault = "drop"
          THEN [base EXCEPT !.raised = TRUE, !.errorLogged = TRUE,
                            !.opened = TRUE]
        ELSE IF fault = "write" \/ input = None
          THEN [base EXCEPT !.raised = TRUE, !.errorLogged = TRUE,
                            !.opened = TRUE, !.table = NoTable]
        ELSE IF doIdx /\ (fault = "index_conn"
                          \/ (~IndexesGuarded(p) /\ failed # {}))
          THEN [base EXCEPT !.raised = TRUE, !.errorLogged = TRUE,
                            !.opened = TRUE, !.table = new, !.written = TRUE,
                            !.idxAttempted =
                                IF fault = "index_conn" THEN {} ELSE att,
                            !.idxFailed =
                                IF fault = "index_conn" THEN {} ELSE failed]
        ELSE IF HasVerify(p) /\ fault = "verify"
          THEN [base EXCEPT !.raised = TRUE, !.errorLogged = TRUE,
                            !.opened = TRUE, !.table = new, !.written = TRUE,
                            !.idxAttempted = att, !.idxFailed = failed]
        ELSE [base EXCEPT !.opened = TRUE, !.table = new, !.written = TRUE,
                          !.idxAttempted = att, !.idxFailed = failed,
                          !.countQueried = HasVerify(p),
                          !.closed = ClosesOnSuccess(p)]

\* CREATE TABLE IF NOT EXISTS (and, for crypto_prices, its indexes), committed
Ensured(p, prior) ==
    IF prior = NoTable THEN Table({}, DatasetColumns(p)) ELSE prior

\* crypto_prices.run_pipeline: connect_db, ensure_table, TRUNCATE, commit,
\* executemany INSERT, commit, close
LoadTruncate(p, sid, prior, input, clk, e, mkIdx, fault, idxFail) ==
    LET ens == Ensured(p, prior)
        base == [table |-> prior, raised |-> FALSE, skipped |-> FALSE,
                 opened |-> FALSE, closed |-> FALSE, written |-> FALSE,
                 idxAttempted |-> {}, idxFailed |-> {},
                 countQueried |-> FALSE, errorLogged |-> FALSE]
        att == IndexAttempts(p, idxFail)
        failed == att \cap idxFail
    IN  IF ~ResolvesUrl(e) \/ fault = "connect"
          THEN [base EXCEPT !.raised = TRUE]
        ELSE IF fault = "ensure" \/ failed # {}
          THEN [base EXCEPT !.raised = TRUE, !.opened = TRUE,
                            !.idxAttempted =
                                IF fault = "ensure" THEN {} ELSE att,
                            !.idxFailed =
                                IF fault = "ensure" THEN {} ELSE failed]
        ELSE IF fault = "drop"
          THEN [base EXCEPT !.raised = TRUE, !.opened = TRUE, !.table = ens,
                            !.idxAttempted = att]
        ELSE IF fault = "write"
          THEN [base EXCEPT !.raised = TRUE, !.opened = TRUE,
                            !.table = Table({}, ens[1].cols),
                            !.idxAttempted = att]
        ELSE [base EXCEPT !.opened = TRUE, !.closed = TRUE, !.written = TRUE,
                          !.table = Table(RowsOf(p, input[1], clk),
                                          ens[1].cols),
                          !.idxAttempted = att]

\* shipping_disruption.main: get_connection, ensure_tables, upsert_ports,
\* load_scores (INSERT ... ON CONFLICT (port_id, score_time) DO NOTHING, two
\* CREATE INDEX, one commit), close
LoadAppend(p, sid, prior, input, clk, e, mkIdx, fault, idxFail) ==
    LET ens == Ensured(p, prior)
        base == [table |-> prior, raised |-> FALSE, skipped |-> FALSE,
                 opened |-> FALSE, closed |-> FALSE, written |-> FALSE,
                 idxAttempted |-> {}, idxFailed |-> {},
                 countQueried |-> FALSE, errorLogged |-> FALSE]
        att == IndexAttempts(p, idxFail)
        failed == att \cap idxFail
    IN  IF ~ResolvesUrl(e) \/ fault = "connect"
          THEN [base EXCEPT !.raised = TRUE]
        ELSE IF fault = "ensure"
          THEN [base EXCEPT !.raised = TRUE, !.opened = TRUE]
        ELSE IF fault = "write"
          THEN [base EXCEPT !.raised = TRUE, !.opened = TRUE, !.table = ens]
        ELSE IF failed # {}
          THEN [base EXCEPT !.raised = TRUE, !.opened = TRUE, !.table = ens,
                            !.idxAttempted = att, !.idxFailed = failed]
        ELSE [base EXCEPT !.opened = TRUE, !.closed = TRUE, !.written = TRUE,
                          !.table = Table(ens[1].rows
                                            \cup RowsOf(p, input[1], clk),
                                          ens[1].cols),
                          !.idxAttempted = att]

\* the faults that are steps of this pipeline's load stage
FaultsOf(p) ==
    CASE LoadKind(p) = "truncate" ->
           {"none", "connect", "ensure", "drop", "write"}
      [] LoadKind(p) = "append" -> {"none", "connect", "ensure", "write"}
      [] OTHER ->
           {"none", "connect", "drop", "write", "index_conn"}
             \cup (IF HasVerify(p) THEN {"verify"} ELSE {})

LoadOutcome(p, sid, prior, input, clk, e, mkIdx, fault, idxFail) ==
    CASE LoadKind(p) = "truncate" ->
           LoadTruncate(p, sid, prior, input, clk, e, mkIdx, fault, idxFail)
      [] LoadKind(p) = "append" ->
           LoadAppend(p, sid, prior, input, clk, e, mkIdx, fault, idxFail)
      [] OTHER ->
           LoadReplace(p, sid, prior, input, clk, e, mkIdx, fault, idxFail)

\* ------------------------------------------------------ process boundary
\* `exit(main())`, `main()` with the status dropped, or no main() at all
ExitCode(p, res) ==
    CASE p \in {"pokemon_data", "crypto_market", "weather_analytics",
                "spacex_launches", "network_traffic", "hackernews_scraper"} ->
           IF res = "True" THEN 0 ELSE 1
      [] p \in {"thailand_hotels", "csv_kaggle"} -> 0
      [] p = "crypto_prices" -> 0
      [] OTHER -> IF res \in {"raised", "ctor_raised"} THEN 1 ELSE 0

\* (mutant) the except clause of run() swallows the exception
ResultOnRaise_swallowed(p) == IF RunCatches(p) THEN "True" ELSE "None"

\* what run() hands to its caller when a stage raised / when the loop ended
ResultOnRaise(p) == IF RunCatches(p) THEN "False" ELSE "raised"

ResultOnEnd(p) == IF RunCatches(p) THEN "True" ELSE "None"

\* ----------------------------------------------------------------- state
VARIABLES
    pipeline,        \* the script this process runs
    stages,          \* pipeline_config['stages'], as the list of stage ids
    create_indexes,  \* destination['create_indexes'] of the load stages
    env,             \* [aiven, dburl]: which URI variables are set
    has_config,      \* the configuration file lists this pipeline
    source,          \* ids of the rows the upstream source delivers
    tables,          \* destination tables, by load stage
    pc,              \* "not_started", "running", "returned", "exited"
    idx,             \* position of the stage loop (next stage to dispatch)
    data,            \* the dataset attributes of the pipeline object
    executed,        \* stage ids routed to a handler, in order
    completed,       \* stage ids whose handler returned, in order
    error,           \* the exception that ended the run: <<kind, stage id>>
    result,          \* what run() handed to its caller
    exitCode,        \* exit status of the process, -1 while it runs
    lastLoad,        \* what the latest load stage of this run did
    clock,           \* the run's timestamp
    runsLeft,        \* further runs of the script that may follow
    prev,            \* the previous run: its outcome, source and tables
    fn,              \* the function or entry point under call, "none" if none
    args,            \* its arguments and the environment it reads
    ret,             \* what it returned or raised, None until it has
    main,            \* the main thread while it works with requests in flight
    inflight,        \* the state of every request or future, by its key
    regional_dfs,    \* weather: regions whose frame was stored, in order
    merged_df        \* weather: the rows of the merged frame, None before

vars == <<pipeline, stages, create_indexes, env, has_config, source, tables,
          pc, idx, data, executed, completed, error, result, exitCode,
          lastLoad, clock, runsLeft, prev, fn, args, ret, main, inflight,
          regional_dfs, merged_df>>

\* the state of a pipeline process, and the state of a single call
process == <<pipeline, stages, create_indexes, env, has_config, source,
             tables, pc, idx, data, executed, completed, error, result,
             exitCode, lastLoad, clock, runsLeft, prev>>

call == <<fn, args, ret>>

\* the requests in flight and what the main thread gathered from them
workers == <<main, inflight, regional_dfs, merged_df>>

\* no request was issued
WorkersIdle ==
    /\ main = [pc |-> "idle"]
    /\ inflight = <<>>
    /\ regional_dfs = <<>>
    /\ merged_df = <<>>

deployment == <<pipeline, stages, create_indexes, env, has_config>>

\* ------------------------------------------------- configured stage lists
RemoveAt(s, i) == SubSeq(s, 1, i - 1) \o SubSeq(s, i + 1, Len(s))

ReplaceAt(s, i, x) == [s EXCEPT ![i] = x]

SwapAt(s, i) == [s EXCEPT ![i] = s[i + 1], ![i + 1] = s[i]]

RepeatAt(s, i) == SubSeq(s, 1, i) \o SubSeq(s, i, Len(s))

\* stage lists a configuration file can declare: the documented one, and the
\* ones that differ from it by one stage left out, one id not known to the
\* dispatcher, two neighbours exchanged or one stage listed twice
StageLists(p) ==
    LET c == KnownStages(p)
    IN  {c, <<>>}
          \cup {RemoveAt(c, i) : i \in 1..Len(c)}
          \cup {ReplaceAt(c, i, UnknownStage) : i \in 1..Len(c)}
          \cup {SwapAt(c, i) : i \in 1..(Len(c) - 1)}
          \cup {RepeatAt(c, i) : i \in 1..Len(c)}

Envs == [aiven : BOOLEAN, dburl : BOOLEAN]

NoLoad == [stage |-> "none", input |-> None, prior |-> NoTable,
           table |-> NoTable, raised |-> FALSE, skipped |-> FALSE,
           opened |-> FALSE, closed |-> FALSE, written |-> FALSE,
           idxAttempted |-> {}, idxFailed |-> {}, countQueried |-> FALSE,
           errorLogged |-> FALSE]

\* what a destination table can hold before the first run
PriorTables(p) ==
    {NoTable,
     Table({}, DatasetColumns(p)),
     Table({<<1, 0>>}, {"legacy"}),
     Table({<<i, 0>> : i \in RowIds}, DatasetColumns(p))}

InitCommon ==
    /\ pipeline \in Pipelines
    /\ pc = "not_started"
    /\ idx = 1
    /\ data = InitData(pipeline)
    /\ executed = <<>>
    /\ completed = <<>>
    /\ error = None
    /\ result = "none"
    /\ exitCode = -1
    /\ lastLoad = NoLoad
    /\ clock = 1
    /\ prev = None
    /\ fn = "none"
    /\ args = [none |-> TRUE]
    /\ ret = None
    /\ WorkersIdle

\* the runner under every configured stage list, one run
InitRunner ==
    /\ InitCommon
    /\ stages \in IF pipeline \in ConfigPipelines
                    THEN StageLists(pipeline) ELSE {KnownStages(pipeline)}
    /\ create_indexes = TRUE
    /\ env \in Envs
    /\ has_config \in BOOLEAN
    /\ source \in {{}, RowIds}
    /\ tables = [t \in TablesOf(pipeline) |-> NoTable]
    /\ runsLeft = 0

\* the documented stage list over every table and source, runs in succession
Init ==
    /\ InitCommon
    /\ stages = KnownStages(pipeline)
    /\ create_indexes \in BOOLEAN
    /\ env \in Envs
    /\ has_config = TRUE
    /\ source \in SUBSET RowIds
    /\ \E t0 \in PriorTables(pipeline) :
          tables = [t \in TablesOf(pipeline) |-> t0]
    /\ runsLeft = MaxRuns - 1

\* ---------------------------------------------------------------- actions
\* main(): the constructor (configuration lookup, AIVEN_PG_URI check), then
\* the entry of run()
Start ==
    /\ pc = "not_started"
    /\ IF \/ (pipeline \in ConfigPipelines /\ ~has_config)
          \/ (CtorChecksAiven(pipeline) /\ ~env.aiven)
         THEN /\ pc' = "returned"
              /\ result' = "ctor_raised"
              /\ error' = Some(<<"config", "__init__">>)
         ELSE /\ pc' = "running"
              /\ UNCHANGED <<result, error>>
    /\ UNCHANGED <<deployment, source, tables, idx, data, executed, completed,
                   exitCode, lastLoad, clock, runsLeft, prev>>
    /\ UNCHANGED <<call, workers>>

\* one iteration of the stage loop on a stage that is not a load stage:
\* _execute_stage routes by stage_id; the handler completes or raises, and a
\* raise ends run() (return False, or the exception itself)
Dispatch ==
    /\ pc = "running"
    /\ idx <= Len(stages)
    /\ stages[idx] \notin LoadStages(pipeline)
    /\ LET sid == stages[idx]
       IN  IF ~IsKnown(pipeline, sid)
             THEN IF UnknownStageRaises(pipeline)
                    THEN /\ pc' = "returned"
                         /\ result' = ResultOnRaise(pipeline)
                         /\ error' = Some(<<"unknown", sid>>)
                         /\ UNCHANGED <<idx, data, executed, completed>>
                    ELSE /\ idx' = idx + 1
                         /\ UNCHANGED <<pc, result, error, data, executed,
                                        completed>>
             ELSE \E outcome \in {"ok", "raise"} :
                    /\ outcome = "raise" => sid \notin NoOpStages(pipeline)
                    /\ executed' = Append(executed, sid)
                    /\ IF outcome = "ok"
                          /\ StageCanComplete(pipeline, sid, data)
                          /\ ExtractCanComplete(pipeline, sid, source)
                         THEN /\ data' = StageEffect(pipeline, sid, data,
                                                     source)
                              /\ completed' = Append(completed, sid)
                              /\ idx' = idx + 1
                              /\ UNCHANGED <<pc, result, error>>
                         ELSE /\ pc' = "returned"
                              /\ result' = ResultOnRaise(pipeline)
                              /\ error' = Some(<<"stage", sid>>)
                              /\ UNCHANGED <<idx, data, completed>>
    /\ UNCHANGED <<deployment, source, tables, exitCode, lastLoad, clock,
                   runsLeft, prev>>
    /\ UNCHANGED <<call, workers>>

\* one iteration of the stage loop on a load stage: the whole handler, with
\* the step at which the database fails (if any) and the indexes that fail
Load ==
    /\ pc = "running"
    /\ idx <= Len(stages)
    /\ stages[idx] \in LoadStages(pipeline)
    /\ LET sid == stages[idx]
           merged == IF StageCanComplete(pipeline, sid, data)
                       THEN StageEffect(pipeline, sid, data, source)
                       ELSE data
           input == IF StageCanComplete(pipeline, sid, data)
                      THEN LoadInput(pipeline, sid, merged) ELSE None
       IN  \E fault \in FaultsOf(pipeline) :
           \E idxFail \in SUBSET (1..IndexCount(pipeline)) :
             /\ fault # "none" => idxFail = {}
             /\ LET o == LoadOutcome(pipeline, sid, tables[sid], input, clock,
                                     env, create_indexes, fault, idxFail)
                IN  /\ executed' = Append(executed, sid)
                    /\ tables' = [tables EXCEPT ![sid] = o.table]
                    /\ lastLoad' = [stage |-> sid, input |-> input,
                                    prior |-> tables[sid], table |-> o.table,
                                    raised |-> o.raised,
                                    skipped |-> o.skipped,
                                    opened |-> o.opened, closed |-> o.closed,
                                    written |-> o.written,
                                    idxAttempted |-> o.idxAttempted,
                                    idxFailed |-> o.idxFailed,
                                    countQueried |-> o.countQueried,
                                    errorLogged |-> o.errorLogged]
                    /\ IF o.raised
                         THEN /\ pc' = "returned"
                              /\ result' = ResultOnRaise(pipeline)
                              /\ error' = Some(<<"stage", sid>>)
                              /\ UNCHANGED <<idx, data, completed>>
                         ELSE /\ data' = merged
                              /\ completed' = Append(completed, sid)
                              /\ idx' = idx + 1
                              /\ UNCHANGED <<pc, result, error>>
    /\ UNCHANGED <<deployment, source, exitCode, clock, runsLeft, prev>>
    /\ UNCHANGED <<call, workers>>

\* the stage loop is exhausted: run() returns
Finish ==
    /\ pc = "running"
    /\ idx > Len(stages)
    /\ pc' = "returned"
    /\ result' = ResultOnEnd(pipeline)
    /\ UNCHANGED <<deployment, source, tables, idx, data, executed, completed,
                   error, exitCode, lastLoad, clock, runsLeft, prev>>
    /\ UNCHANGED <<call, workers>>

\* the __main__ block turns the outcome into the exit status of the process
Exit ==
    /\ pc = "returned"
    /\ pc' = "exited"
    /\ exitCode' = ExitCode(pipeline, result)
    /\ UNCHANGED <<deployment, source, tables, idx, data, executed, completed,
                   error, result, lastLoad, clock, runsLeft, prev>>
    /\ UNCHANGED <<call, workers>>

\* the script is started again; the upstream data may have changed meanwhile
Rerun ==
    /\ pc = "exited"
    /\ runsLeft > 0
    /\ runsLeft' = runsLeft - 1
    /\ clock' = clock + 1
    /\ prev' = Some([ok |-> result \in {"True", "None"}, source |-> source,
                     tables |-> tables])
    /\ source' \in {source, RowIds \ source}
    /\ pc' = "not_started"
    /\ idx' = 1
    /\ data' = InitData(pipeline)
    /\ executed' = <<>>
    /\ completed' = <<>>
    /\ error' = None
    /\ result' = "none"
    /\ exitCode' = -1
    /\ lastLoad' = NoLoad
    /\ UNCHANGED <<deployment, tables>>
    /\ UNCHANGED <<call, workers>>

Next == Start \/ Dispatch \/ Load \/ Finish \/ Exit \/ Rerun

Spec == Init /\ [][Next]_vars

NextRunner == Start \/ Dispatch \/ Load \/ Finish \/ Exit

SpecRunner == InitRunner /\ [][NextRunner]_vars

\* ================================================================ claims
Done == pc \in {"returned", "exited"}

Succeeded == Done /\ result \in {"True", "None"}

IsPrefix(s, t) == Len(s) <= Len(t) /\ s = SubSeq(t, 1, Len(s))

Rows(t) == IF t = NoTable THEN {} ELSE t[1].rows

Cols(t) == IF t = NoTable THEN {} ELSE t[1].cols

\* C1: for every pipeline that walks a configured stage list, the stage ids
\* run() dispatched are the declared list after a successful run and a prefix
\* of it after a failed one (nothing twice, skipped or reordered).
C1_DispatchInDeclaredOrder ==
    (Done /\ pipeline \in ConfigPipelines /\ result # "ctor_raised")
        => IF result = "True" THEN executed = stages
                              ELSE IsPrefix(executed, stages)

\* C2: fail-fast.  Once a stage handler raised, the run is over and reports
\* failure, the stage that raised is the last one dispatched (so no load
\* stage follows a failed stage), and a run that reports success had every
\* dispatched stage complete.
C2_FailFast ==
    /\ error # None =>
          /\ Done
          /\ result \notin {"True", "None"}
          /\ error[1][1] = "stage" =>
                /\ executed # <<>>
                /\ executed[Len(executed)] = error[1][2]
                /\ completed = SubSeq(executed, 1, Len(executed) - 1)
                /\ idx <= Len(stages) /\ stages[idx] = error[1][2]
    /\ Succeeded => (error = None /\ completed = executed)

\* C2 witness: a handler raised in the middle of the list, after an earlier
\* stage had completed and with a load stage still to come.
C2_Witness ==
    /\ pc = "returned" /\ error # None /\ error[1][1] = "stage"
    /\ Len(completed) >= 1
    /\ \E j \in (idx + 1)..Len(stages) : stages[j] \in LoadStages(pipeline)

\* C3: a configured stage without a registered handler fails the run with an
\* error that names its stage id; no later stage runs and run() does not
\* report success.
C3_UnknownStageFailsRun ==
    (Done /\ result # "ctor_raised")
        => \A i \in 1..Len(stages) :
              (~IsKnown(pipeline, stages[i]) /\ idx >= i)
                 => /\ idx = i
                    /\ error = Some(<<"unknown", stages[i]>>)
                    /\ ~Succeeded

\* C4: run() never raises past the pipeline boundary; it returns a boolean
\* that is True exactly when no stage raised.
C4_RunReturnsBoolean ==
    (Done /\ result # "ctor_raised"
        /\ pipeline \in ConfigPipelines \cup {"stock_market"})
        => /\ result \in {"True", "False"}
           /\ result = "True" <=> error = None

\* C5: a failed run (constructor error, stage failure, sink failure) ends the
\* process with a non-zero exit status; exit status 0 implies that every
\* stage completed.
C5_FailureExitsNonZero ==
    pc = "exited"
        => /\ error # None => exitCode # 0
           /\ exitCode = 0 => (error = None /\ completed = stages)

\* C6: after a run that reports success, each destination table of a
\* drop-and-recreate pipeline holds exactly the rows of the run's final
\* dataset, whatever it held before (also when that dataset is empty).
C6_TableHoldsFinalDataset ==
    (Succeeded /\ LoadKind(pipeline) = "replace" /\ completed = stages)
        => \A t \in TablesOf(pipeline) :
              /\ LoadInput(pipeline, t, data) # None
              /\ Rows(tables[t])
                   = RowsOf(pipeline, LoadInput(pipeline, t, data)[1], clock)

SameShape(t1, t2) ==
    /\ Cardinality(Rows(t1)) = Cardinality(Rows(t2))
    /\ Cols(t1) = Cols(t2)

\* two successful runs in succession over unchanged upstream data
TwiceUnchanged ==
    /\ Succeeded /\ completed = stages
    /\ prev # None /\ prev[1].ok /\ prev[1].source = source

\* C7 (as claimed): running the same pipeline twice in succession with
\* unchanged upstream data leaves every destination table with the same row
\* count and column set after the second run as after the first.
C7_LoadIdempotent ==
    TwiceUnchanged
        => \A t \in TablesOf(pipeline) : SameShape(prev[1].tables[t], tables[t])

\* C7 (amended): that holds for every pipeline whose load replaces the table
\* (drop-and-recreate, TRUNCATE in crypto_prices); the shipping-disruption
\* load appends its scores, so there the column set is the same and the row
\* count of the second run is the first one's plus the scores of the run.
C7_LoadIdempotentUnlessAppend ==
    TwiceUnchanged
        => \A t \in TablesOf(pipeline) :
              IF LoadKind(pipeline) = "append"
                THEN /\ Cols(prev[1].tables[t]) = Cols(tables[t])
                     /\ Cardinality(Rows(tables[t]))
                          = Cardinality(Rows(prev[1].tables[t]))
                              + Cardinality(LoadInput(pipeline, t, data)[1])
                ELSE SameShape(prev[1].tables[t], tables[t])

\* C7 witness: the second of two successful runs of a drop-and-recreate
\* pipeline over the same non-empty source has written its table.
C7_Witness ==
    /\ TwiceUnchanged /\ LoadKind(pipeline) = "replace" /\ source = RowIds
    /\ lastLoad.written
    /\ \A t \in TablesOf(pipeline) : Cardinality(Rows(tables[t])) = MaxRows

NewTable(l) == Table(RowsOf(pipeline, l.input[1], clock), DatasetColumns(pipeline))

\* C8 (as claimed): a load stage that fails leaves its table with the prior
\* contents, absent, or with the complete new dataset.
C8_FailedLoadPriorAbsentOrComplete ==
    (lastLoad.stage # "none" /\ lastLoad.raised)
        => \/ lastLoad.table = lastLoad.prior
           \/ lastLoad.table = NoTable
           \/ (lastLoad.input # None
               /\ Rows(lastLoad.table) = Rows(NewTable(lastLoad)))

\* C8 (amended): a load stage that fails leaves its table with the prior
\* contents, absent or empty, or with the complete new dataset; it never
\* writes a non-empty strict subset of the new dataset's rows (such a table
\* can only be the untouched prior contents).
C8_FailedLoadNeverPartial ==
    (lastLoad.stage # "none" /\ lastLoad.raised)
        => /\ \/ lastLoad.table = lastLoad.prior
              \/ lastLoad.table = NoTable
              \/ Rows(lastLoad.table) = {}
              \/ (lastLoad.input # None
                  /\ Rows(lastLoad.table) = Rows(NewTable(lastLoad)))
           /\ (/\ lastLoad.input # None
               /\ Rows(lastLoad.table) # {}
               /\ Rows(lastLoad.table) # Rows(NewTable(lastLoad))
               /\ Rows(lastLoad.table) \subseteq Rows(NewTable(lastLoad)))
                 => lastLoad.table = lastLoad.prior
           /\ tables[lastLoad.stage] = lastLoad.table

\* C8 witness: a load failed after it had dropped a non-empty table, with
\* more than one row to write.
C8_Witness ==
    /\ lastLoad.stage # "none" /\ lastLoad.raised /\ lastLoad.opened
    /\ Rows(lastLoad.prior) # {}
    /\ lastLoad.input # None /\ Cardinality(lastLoad.input[1]) >= 2
    /\ lastLoad.table = NoTable

\* C9: in every load stage a failing CREATE INDEX is logged and skipped: the
\* stage does not fail, the remaining index columns are still attempted and
\* the loaded rows stay in the table.
C9_IndexFailureNotFatal ==
    (lastLoad.stage # "none" /\ lastLoad.idxFailed # {})
        => /\ ~lastLoad.raised
           /\ lastLoad.idxAttempted = 1..IndexCount(pipeline)
           /\ Rows(lastLoad.table) = Rows(NewTable(lastLoad))

\* C10: every load stage that writes runs a row-count query afterwards, and
\* a count of zero after a non-empty dataset is reported at error level.
C10_LoadVerified ==
    (lastLoad.stage # "none" /\ ~lastLoad.raised /\ ~lastLoad.skipped)
        => /\ lastLoad.countQueried
           /\ (Rows(lastLoad.table) = {} /\ lastLoad.input[1] # {})
                 => lastLoad.errorLogged


\* ===================================================== single-call models
\* the pipeline process at rest while one function is called on its own
ProcessIdle ==
    /\ pipeline = "pokemon_data"
    /\ stages = <<>>
    /\ create_indexes = FALSE
    /\ env = [aiven |-> FALSE, dburl |-> FALSE]
    /\ has_config = FALSE
    /\ source = {}
    /\ tables = [t \in TablesOf("pokemon_data") |-> NoTable]
    /\ pc = "exited"
    /\ idx = 1
    /\ data = InitData("pokemon_data")
    /\ executed = <<>>
    /\ completed = <<>>
    /\ error = None
    /\ result = "none"
    /\ exitCode = 0
    /\ lastLoad = NoLoad
    /\ clock = 1
    /\ runsLeft = 0
    /\ prev = None

\* --------------------------------------------------- database connection
\* a connection URI: its scheme and the parameters of its query string
Schemes == {"postgres://", "postgresql://", "postgresql+psycopg2://"}

Queries == {<<>>,
            <<"connect_timeout=10">>,
            <<"connect_timeout=10", "sslmode=verify-full">>}

Uris == [scheme : Schemes, query : Queries, from : {"uri"}]

\* an environment variable that is not set, and one set to the empty string
Unset == "unset"

Empty == ""

\* `if x` / all([...]) on the value of os.getenv
Truthy(v) == v \notin {Unset, Empty}

\* a URI variable that is not set, and one set to the empty string
UriUnset == [scheme |-> "", query |-> <<>>, from |-> "unset"]

UriEmpty == [scheme |-> "", query |-> <<>>, from |-> "empty"]

\* `if uri` / `x or y` on the value of a URI variable
TruthyUri(u) == u.from \notin {"unset", "empty"}

DiscreteVars == {"DB_USER", "DB_PASS", "DB_HOST", "DB_PORT", "DB_NAME"}

\* the five discrete variables: all set, all unset, or one of them unset or
\* empty
DiscreteEnvs ==
    {[v \in DiscreteVars |-> "x"], [v \in DiscreteVars |-> Unset]}
      \cup {[[v \in DiscreteVars |-> "x"] EXCEPT ![m] = bad] :
               m \in DiscreteVars, bad \in {Unset, Empty}}

ConnEnvs == [AIVEN_PG_URI : Uris \cup {UriUnset, UriEmpty},
             DATABASE_URL : Uris \cup {UriUnset, UriEmpty},
             discrete : DiscreteEnvs]

\* "sslmode=" in uri
HasSslmode(u) ==
    \E i \in 1..Len(u.query) : u.query[i] \in {"sslmode=require",
                                               "sslmode=verify-full"}

\* uri.startswith(old) and uri.replace(old, new, 1)
RewriteScheme(u, old, new) ==
    IF u.scheme = old THEN [u EXCEPT !.scheme = new] ELSE u

_normalize_pg_uri(u) ==
    LET u1 == RewriteScheme(u, "postgres://", "postgresql://")
    IN  IF HasSslmode(u1) THEN u1
        ELSE [u1 EXCEPT !.query = Append(u1.query, "sslmode=require")]

\* the value of a URI variable, remembering which variable it was read from
Getenv(e, name) ==
    IF TruthyUri(e[name]) THEN [e[name] EXCEPT !.from = name] ELSE e[name]

\* os.getenv("AIVEN_PG_URI") or os.getenv("DATABASE_URL")
UriVariable(e) ==
    IF TruthyUri(e.AIVEN_PG_URI) THEN Getenv(e, "AIVEN_PG_URI")
    ELSE Getenv(e, "DATABASE_URL")

\* the f-string over the five discrete variables
DiscreteUri(e, scheme) ==
    [scheme |-> scheme, query |-> <<"sslmode=require">>,
     from |-> "discrete"]

AllDiscrete(e) == \A v \in DiscreteVars : Truthy(e.discrete[v])

Raised(kind) == [raised |-> TRUE, kind |-> kind, uri |-> UriUnset]

Handed(u) == [raised |-> FALSE, kind |-> "none", uri |-> u]

\* utils/connection.py of the backend
get_engine(e) ==
    IF TruthyUri(UriVariable(e))
      THEN Handed(RewriteScheme(_normalize_pg_uri(UriVariable(e)),
                                "postgresql://", "postgresql+psycopg2://"))
    ELSE IF ~AllDiscrete(e) THEN Raised("ValueError")
    ELSE Handed(DiscreteUri(e, "postgresql+psycopg2://"))

get_connection(e) ==
    IF TruthyUri(UriVariable(e))
      THEN Handed(_normalize_pg_uri(UriVariable(e)))
    ELSE IF ~AllDiscrete(e) THEN Raised("ValueError")
    ELSE Handed(_normalize_pg_uri(DiscreteUri(e, "postgresql://")))

\* src/utils/connection.py: the discrete variables only, never an error
legacy_get_engine(e) == Handed(DiscreteUri(e, "postgresql+psycopg2://"))

\* utils/helper_functions.py, at import
helper_functions_engine(e) ==
    IF ~TruthyUri(e.AIVEN_PG_URI) THEN Raised("ValueError")
    ELSE Handed(RewriteScheme(Getenv(e, "AIVEN_PG_URI"), "postgres://",
                              "postgresql+psycopg2://"))

\* the scheme a pipeline's own code rewrites postgres:// to
PipelineScheme(p) ==
    IF p \in {"stock_market", "crypto_prices", "shipping_disruption"}
      THEN "postgresql://" ELSE "postgresql+psycopg2://"

\* a pipeline script up to the engine or connection of its load stage: the
\* constructor's AIVEN_PG_URI check, then the load stage's own lookup
PipelineConnect(p, e) ==
    IF CtorChecksAiven(p) /\ ~TruthyUri(e.AIVEN_PG_URI)
      THEN Raised("ValueError")
    ELSE IF ~TruthyUri(UriVariable(e))
      THEN Raised(IF p = "crypto_prices" THEN "RuntimeError"
                  ELSE "ValueError")
    ELSE Handed(RewriteScheme(UriVariable(e), "postgres://",
                              PipelineScheme(p)))

HelperEntryPoints == {"get_engine", "get_connection", "legacy_get_engine",
                      "helper_functions"}

EntryPoints == HelperEntryPoints \cup Pipelines

Connect(ep, e) ==
    CASE ep = "get_engine" -> get_engine(e)
      [] ep = "get_connection" -> get_connection(e)
      [] ep = "legacy_get_engine" -> legacy_get_engine(e)
      [] ep = "helper_functions" -> helper_functions_engine(e)
      [] OTHER -> PipelineConnect(ep, e)

InitConn ==
    /\ ProcessIdle
    /\ WorkersIdle
    /\ fn \in EntryPoints
    /\ args \in ConnEnvs
    /\ ret = None

\* the entry point resolves its connection string
Resolve ==
    /\ fn \in EntryPoints
    /\ ret = None
    /\ ret' = Some(Connect(fn, args))
    /\ UNCHANGED <<process, workers, fn, args>>

NextConn == Resolve

SpecConn == InitConn /\ [][NextConn]_vars

\* the variable the documented precedence selects
ExpectedOrigin(e) ==
    IF TruthyUri(e.AIVEN_PG_URI) THEN "AIVEN_PG_URI"
    ELSE IF TruthyUri(e.DATABASE_URL) THEN "DATABASE_URL"
    ELSE "discrete"

\* C11: every entry point resolves its connection with the same precedence
\* (AIVEN_PG_URI if non-empty, else DATABASE_URL if non-empty, else the five
\* discrete variables), and raises a configuration error if and only if no
\* URI variable is set and at least one discrete variable is missing
C11_SamePrecedence ==
    (fn \in EntryPoints /\ ret # None)
        => LET r == ret[1]
           IN  /\ r.raised <=> (ExpectedOrigin(args) = "discrete"
                                 /\ ~AllDiscrete(args))
               /\ ~r.raised => r.uri.from = ExpectedOrigin(args)

\* C12: the string handed to the database library never begins with
\* postgres:// and always carries an sslmode parameter, in the shared helper
\* and in each pipeline's own load stage
C12_SchemeAndSslmode ==
    (fn \in EntryPoints /\ ret # None /\ ~ret[1].raised)
        => /\ ret[1].uri.scheme # "postgres://"
           /\ HasSslmode(ret[1].uri)

\* ------------------------------------------------- row-level transforms
Abs(x) == IF x < 0 THEN -x ELSE x

Max2(a, b) == IF a >= b THEN a ELSE b

Min2(a, b) == IF a <= b THEN a ELSE b

\* float('inf') as a bin edge
Inf == 1000000

\* pd.cut(x, bins=bins, labels=labels) with its defaults right=True and
\* include_lowest=False: label i for bins[i] < x <= bins[i+1], NaN otherwise
\* and for a NaN x
pd_cut(x, bins, labels) ==
    IF x = None THEN None
    ELSE LET hit == {i \in 1..Len(labels) :
                        bins[i] < x[1] /\ x[1] <= bins[i + 1]}
         IN  IF hit = {} THEN None
             ELSE Some(labels[CHOOSE i \in hit : TRUE])

\* network_traffic: the indicators of one row after _stage_analyze.  The
\* spectral factor (entropy under its 15% quantile and energy over its 85%
\* quantile) can fire only on a row whose entropy is under the 25% quantile.
NetworkRows ==
    {r \in [labeled_threat : {"malicious", "benign"},
            uses_suspicious_port : BOOLEAN,
            high_volume_traffic : BOOLEAN,
            low_entropy_traffic : BOOLEAN,
            potential_syn_flood : BOOLEAN,
            spectral_anomaly : BOOLEAN,
            packet_size : {40, 50, 800, 1400, 1500}] :
        r.spectral_anomaly => r.low_entropy_traffic}

\* _stage_analyze: 'malicious' if label == 1 else 'benign'
labeled_threat(label) == IF label = 1 THEN "malicious" ELSE "benign"

\* (mutant) the label weighs 40
risk_score_label40(r) ==
      (IF r.labeled_threat = "malicious" THEN 40 ELSE 0)
    + (IF r.uses_suspicious_port THEN 20 ELSE 0)
    + (IF r.high_volume_traffic THEN 15 ELSE 0)
    + (IF r.low_entropy_traffic THEN 10 ELSE 0)
    + (IF r.potential_syn_flood THEN 15 ELSE 0)
    + (IF r.spectral_anomaly THEN 10 ELSE 0)
    + (IF r.packet_size < 50 THEN 8 ELSE 0)
    + (IF r.packet_size > 1400 THEN 6 ELSE 0)

\* _stage_risk_scoring: the risk factors are added up, nothing clips the sum
risk_score(r) ==
      (IF r.labeled_threat = "malicious" THEN 50 ELSE 0)
    + (IF r.uses_suspicious_port THEN 20 ELSE 0)
    + (IF r.high_volume_traffic THEN 15 ELSE 0)
    + (IF r.low_entropy_traffic THEN 10 ELSE 0)
    + (IF r.potential_syn_flood THEN 15 ELSE 0)
    + (IF r.spectral_anomaly THEN 10 ELSE 0)
    + (IF r.packet_size < 50 THEN 8 ELSE 0)
    + (IF r.packet_size > 1400 THEN 6 ELSE 0)

threat_level(score) ==
    pd_cut(Some(score), <<-1, 10, 30, 60, 100>>,
           <<"low", "medium", "high", "critical">>)

\* threat_level.isin(['high', 'critical']): a NaN level is in neither
requires_investigation(level) ==
    level # None /\ level[1] \in {"high", "critical"}

_stage_risk_scoring(r) ==
    [risk_score |-> risk_score(r),
     threat_level |-> threat_level(risk_score(r)),
     requires_investigation |->
         requires_investigation(threat_level(risk_score(r)))]

\* crypto_market: a percentage kept exact, as numerator over denominator
\* ((a - b) / b * 100 if b > 0 else 0)
Pct(a, b) == IF b > 0 THEN <<100 * (a - b), b>> ELSE <<0, 1>>

\* (x / b * 100 if b > 0 else 0)
Ratio(x, b) == IF b > 0 THEN <<100 * x, b>> ELSE <<0, 1>>

\* abs(q) > k, q > k and q <= k for an exact percentage q
AbsOver(q, k) == Abs(q[1]) > k * q[2]

Over(q, k) == q[1] > k * q[2]

\* round(q, 2), in hundredths (ties away from zero)
Round2(q) ==
    LET n == Abs(q[1]) * 100
        m == (2 * n + q[2]) \div (2 * q[2])
    IN  IF q[1] < 0 THEN -m ELSE m

\* one spot row with the averages _stage_cross_validate derives for it
CryptoRows ==
    [spot_price_usd : {100, 120},
     avg_24h_price : {0, 80, 100, 104, 110},
     std_24h_price : {0, 3, 4, 6},
     avg_7d_price : {80, 90, 100, 112, 120},
     volume_24h : {100, 160},
     avg_7d_volume : {0, 100}]

_stage_cross_validate(r) ==
    LET d24 == Pct(r.spot_price_usd, r.avg_24h_price)
        d7 == Pct(r.spot_price_usd, r.avg_7d_price)
    IN  [price_deviation_24h_pct |-> d24,
         price_deviation_7d_pct |-> d7,
         volume_deviation_pct |-> Pct(r.volume_24h, r.avg_7d_volume),
         volatility_score |-> Ratio(r.std_24h_price, r.avg_24h_price),
         trend_consistent |-> (Over(d24, 0) <=> Over(d7, 0))]

\* (mutant) confidence that ignores the 7-day and volume deviations
calculate_confidence_24h_only(v) ==
    Max2(0, Min2(100,
        100
      - (IF AbsOver(v.price_deviation_24h_pct, 10) THEN 20
         ELSE IF AbsOver(v.price_deviation_24h_pct, 5) THEN 10 ELSE 0)
      - (IF Over(v.volatility_score, 5) THEN 15
         ELSE IF Over(v.volatility_score, 3) THEN 10 ELSE 0)
      - (IF ~v.trend_consistent THEN 15 ELSE 0)))

calculate_confidence(v) ==
    Max2(0, Min2(100,
        100
      - (IF AbsOver(v.price_deviation_24h_pct, 10) THEN 20
         ELSE IF AbsOver(v.price_deviation_24h_pct, 5) THEN 10 ELSE 0)
      - (IF AbsOver(v.price_deviation_7d_pct, 15) THEN 15
         ELSE IF AbsOver(v.price_deviation_7d_pct, 10) THEN 10 ELSE 0)
      - (IF Over(v.volatility_score, 5) THEN 15
         ELSE IF Over(v.volatility_score, 3) THEN 10 ELSE 0)
      - (IF ~v.trend_consistent THEN 15 ELSE 0)
      - (IF AbsOver(v.volume_deviation_pct, 50) THEN 10 ELSE 0)))

data_quality(x) ==
    IF x >= 80 THEN "high" ELSE IF x >= 60 THEN "medium"
    ELSE IF x >= 40 THEN "low" ELSE "very_low"

\* cross-validation, feedback loop and the rounding of the final merge
CryptoScore(r) ==
    LET v == _stage_cross_validate(r)
    IN  [price_deviation_24h_pct |-> Round2(v.price_deviation_24h_pct),
         price_deviation_7d_pct |-> Round2(v.price_deviation_7d_pct),
         volume_deviation_pct |-> Round2(v.volume_deviation_pct),
         volatility_score |-> Round2(v.volatility_score),
         volatility_over_3 |-> Over(v.volatility_score, 3),
         trend_consistent |-> v.trend_consistent,
         confidence_score |-> calculate_confidence(v),
         data_quality |-> data_quality(calculate_confidence(v))]

\* shipping_disruption: the counts compute_metrics derives for one port
\* (every dwell event adds its vessel to the queue)
PortCounts ==
    {c \in [dwell_events : 0..5, queue_size : 0..3, throughput_events : 0..10] :
        /\ c.queue_size <= c.dwell_events
        /\ c.dwell_events > 0 => c.queue_size > 0}

\* risk_score of compute_metrics, in hundredths: the weighted sum
\* dwell_ratio*40 + queue_ratio*40 + throughput_drop*20 over the baselines
\* 3, 2 and 8, rounded to two decimals
compute_metrics_risk(c) ==
    Round2(<<320 * Min2(3, c.dwell_events)
               + 480 * Min2(2, c.queue_size)
               + 60 * Max2(0, 8 - c.throughput_events), 2400>>)

\* weather_analytics, csv_kaggle: the numeric value a bucket is cut from
WindSpeeds == {None} \cup {Some(v) : v \in {0, 3, 5, 10, 15, 20, 100, 120}}

Ages == {None} \cup {Some(v) : v \in {0, 10, 18, 25, 45, 60, 100, 101}}

Prices == {None} \cup {Some(v) : v \in {0, 5, 50, 100, 600}}

Quantities == {1, 2, 5}

wind_category(x) ==
    pd_cut(x, <<0, 5, 10, 20, 100>>,
           <<"calm", "light", "moderate", "strong">>)

age_group(x) ==
    pd_cut(x, <<0, 18, 30, 45, 60, 100>>,
           <<"Under 18", "18-30", "31-45", "46-60", "Over 60">>)

\* price * quantity
total_amount(price, quantity) ==
    IF price = None THEN None ELSE Some(price[1] * quantity)

spending_tier(x) ==
    pd_cut(x, <<0, 50, 200, 500, Inf>>,
           <<"Low", "Medium", "High", "Premium">>)

\* pokemon_data: the fields of one record the rarity is computed from
BaseStats == {0, 60, 100}

PokemonRows ==
    [is_mythical : BOOLEAN, is_legendary : BOOLEAN,
     hp : BaseStats, attack : BaseStats, defense : BaseStats,
     special_attack : {100}, special_defense : {100}, speed : BaseStats]

total_stats(r) ==
    r.hp + r.attack + r.defense + r.special_attack + r.special_defense
      + r.speed

\* (mutant) the legendary test placed before the mythical one
rarity_legendary_first(r) ==
    IF r.is_legendary THEN "legendary"
    ELSE IF r.is_mythical THEN "mythical"
    ELSE IF total_stats(r) >= 500 THEN "rare"
    ELSE IF total_stats(r) >= 400 THEN "uncommon"
    ELSE "common"

rarity(r) ==
    IF r.is_mythical THEN "mythical"
    ELSE IF r.is_legendary THEN "legendary"
    ELSE IF total_stats(r) >= 500 THEN "rare"
    ELSE IF total_stats(r) >= 400 THEN "uncommon"
    ELSE "common"

TransformFunctions == {"network_risk_scoring", "crypto_confidence",
                       "shipping_risk", "wind_category", "age_group",
                       "spending_tier", "pokemon_rarity"}

TransformArgs(f) ==
    CASE f = "network_risk_scoring" -> NetworkRows
      [] f = "crypto_confidence" -> CryptoRows
      [] f = "shipping_risk" -> PortCounts
      [] f = "wind_category" -> [wind_speed_10m : WindSpeeds]
      [] f = "age_group" -> [age : Ages]
      [] f = "spending_tier" -> [price : Prices, quantity : Quantities]
      [] f = "pokemon_rarity" -> PokemonRows

InitTransform ==
    /\ ProcessIdle
    /\ WorkersIdle
    /\ fn \in TransformFunctions
    /\ args \in TransformArgs(fn)
    /\ ret = None

\* a scoring transform is applied to the row
Score ==
    /\ fn \in {"network_risk_scoring", "crypto_confidence", "shipping_risk"}
    /\ ret = None
    /\ ret' = Some(CASE fn = "network_risk_scoring" -> _stage_risk_scoring(args)
                     [] fn = "crypto_confidence" -> CryptoScore(args)
                     [] fn = "shipping_risk" ->
                          [risk_score |-> compute_metrics_risk(args)])
    /\ UNCHANGED <<process, workers, fn, args>>

\* a bucketing transform is applied to the row
Bucket ==
    /\ fn \in {"wind_category", "age_group", "spending_tier"}
    /\ ret = None
    /\ ret' = Some(CASE fn = "wind_category" ->
                          [value |-> args.wind_speed_10m,
                           label |-> wind_category(args.wind_speed_10m)]
                     [] fn = "age_group" ->
                          [value |-> args.age, label |-> age_group(args.age)]
                     [] fn = "spending_tier" ->
                          [value |-> total_amount(args.price, args.quantity),
                           label |-> spending_tier(
                               total_amount(args.price, args.quantity))])
    /\ UNCHANGED <<process, workers, fn, args>>

\* the Pokemon transform classifies the record
Classify ==
    /\ fn = "pokemon_rarity"
    /\ ret = None
    /\ ret' = Some([total_stats |-> total_stats(args),
                    rarity |-> rarity(args)])
    /\ UNCHANGED <<process, workers, fn, args>>

NextTransform == Score \/ Bucket \/ Classify

SpecTransform == InitTransform /\ [][NextTransform]_vars

\* C13: every composite score (network risk_score, crypto confidence_score,
\* shipping risk_score) lies between 0 and 100, whichever risk indicators
\* fire
C13_ScoreWithinBounds ==
    /\ (fn = "network_risk_scoring" /\ ret # None)
          => (0 <= ret[1].risk_score /\ ret[1].risk_score <= 100)
    /\ (fn = "crypto_confidence" /\ ret # None)
          => (0 <= ret[1].confidence_score /\ ret[1].confidence_score <= 100)
    /\ (fn = "shipping_risk" /\ ret # None)
          => (0 <= ret[1].risk_score /\ ret[1].risk_score <= 10000)

\* C14: in every bucketing transform (network threat_level, CSV
\* spending_tier and age_group, weather wind_category) the label is non-null
\* exactly when the source value is non-null, including values on the lowest
\* bin edge and values above the highest one
C14_LabelIffValue ==
    /\ (fn \in {"wind_category", "age_group", "spending_tier"} /\ ret # None)
          => (ret[1].label # None <=> ret[1].value # None)
    /\ (fn = "network_risk_scoring" /\ ret # None)
          => ret[1].threat_level # None

\* C19: every Pokemon record gets a rarity among common, uncommon, rare,
\* legendary and mythical, and a record with is_mythical true is classified
\* mythical whatever is_legendary and total_stats are
C19_MythicalWins ==
    (fn = "pokemon_rarity" /\ ret # None)
        => /\ ret[1].rarity \in {"common", "uncommon", "rare", "legendary",
                                 "mythical"}
           /\ args.is_mythical => ret[1].rarity = "mythical"

\* a mythical record that is also legendary and has high total stats has been
\* classified
C19_Witness ==
    /\ fn = "pokemon_rarity" /\ ret # None
    /\ args.is_mythical /\ args.is_legendary
    /\ ret[1].total_stats >= 500
    /\ ret[1].rarity = "mythical"

\* the row of the scenario: spot price 100, 24h average 110, volatility at
\* most 3, 7-day trend of the same sign as the 24h one
C20_Scenario ==
    /\ fn = "crypto_confidence" /\ ret # None
    /\ args.spot_price_usd = 100 /\ args.avg_24h_price = 110
    /\ ~ret[1].volatility_over_3
    /\ ret[1].trend_consistent

\* C20: a row with spot price 100 and 24h average 110 gets
\* price_deviation_24h_pct = -9.09, and with volatility_score <= 3 and a
\* consistent trend it gets confidence_score >= 80 and data_quality high,
\* whatever its 7-day price deviation and volume deviation are
C20_ScenarioHighConfidence ==
    /\ (fn = "crypto_confidence" /\ ret # None
          /\ args.spot_price_usd = 100 /\ args.avg_24h_price = 110)
          => ret[1].price_deviation_24h_pct = -909
    /\ C20_Scenario
          => (ret[1].confidence_score >= 80 /\ ret[1].data_quality = "high")

\* C20 (as the code has it): the same row gets price_deviation_24h_pct =
\* -9.09, and confidence_score >= 80 and data_quality high provided the 7-day
\* deviation is at most 15 in magnitude and not both the 7-day deviation
\* exceeds 10 and the volume deviation exceeds 50; otherwise the score is
\* below 80 and the quality is not high
C20_ScenarioHighConfidenceBounded ==
    /\ (fn = "crypto_confidence" /\ ret # None
          /\ args.spot_price_usd = 100 /\ args.avg_24h_price = 110)
          => ret[1].price_deviation_24h_pct = -909
    /\ C20_Scenario
          => LET d7 == Abs(ret[1].price_deviation_7d_pct)
                 vol == Abs(ret[1].volume_deviation_pct)
                 mild == d7 <= 1500 /\ ~(d7 > 1000 /\ vol > 5000)
             IN  /\ mild <=> ret[1].confidence_score >= 80
                 /\ mild <=> ret[1].data_quality = "high"

\* the scenario row with a mild 7-day deviation has been scored high
C20_Witness ==
    /\ C20_Scenario
    /\ Abs(ret[1].price_deviation_7d_pct) > 1000
    /\ ret[1].confidence_score = 80
    /\ ret[1].data_quality = "high"

\* ------------------------------------------------------- source adapters
\* number of items (Pokemon, regions, pages, rockets, tickers) an extract
\* stage asks its source for
MaxItems == 3

\* what happens to the request for one item: it is delivered, the server
\* answers with a non-200 status, the request times out or cannot connect, a
\* key of the answer is missing (KeyError/IndexError or undecodable body), or
\* the answer is well-formed but lacks a required field
Outcomes == {"ok", "http_error", "timeout", "connection_error",
             "parse_error", "missing_required"}

TransientFailures == {"http_error", "timeout", "connection_error",
                      "parse_error"}

\* the extract stages that fetch item by item
ItemAdapters == {"pokemon_data", "crypto_metadata", "weather_analytics",
                 "hackernews_scraper", "spacex_launches", "stock_market"}

\* self.cryptos
cryptos == <<"bitcoin", "ethereum", "binancecoin", "solana", "cardano">>

ItemCount(a) == IF a = "crypto_metadata" THEN Len(cryptos) ELSE MaxItems

AdapterPipeline(a) ==
    IF a \in {"crypto_metadata", "crypto_diamond"} THEN "crypto_market" ELSE a

\* what the loop body of the extract stage does with one item: "keep" the
\* row, "keep_null" (the row with None in the required field), "skip" the
\* item (continue / dropped), or "raise" out of the loop and the stage.
\* For hackernews_scraper the request outcomes are those of a page and the
\* parse outcomes those of a story on it.  The key fields of a metadata row
\* (crypto_id, symbol) come from the pipeline's own list, not from the answer.
Handling(a, o) ==
    CASE o = "ok" -> "keep"
      [] a = "pokemon_data" ->
           IF o = "missing_required" THEN "keep_null" ELSE "skip"
      [] a = "crypto_metadata" ->
           IF o = "http_error" THEN "skip"
           ELSE IF o = "missing_required" THEN "keep" ELSE "raise"
      [] a = "weather_analytics" ->
           IF o = "missing_required" THEN "keep_null" ELSE "skip"
      [] a = "hackernews_scraper" ->
           IF o \in {"parse_error", "missing_required"} THEN "skip"
           ELSE "raise"
      [] a = "spacex_launches" ->
           IF o = "missing_required" THEN "keep_null" ELSE "skip"
      [] a = "stock_market" ->
           IF o \in {"http_error", "missing_required"} THEN "skip"
           ELSE "raise"

\* the columns of the frames of the crypto pipeline, live and mock
MetadataColumns ==
    {"crypto_id", "symbol", "name", "market_cap_rank", "coingecko_score",
     "developer_score", "community_score", "liquidity_score",
     "public_interest_score"}

MockMetadataColumns ==
    {"crypto_id", "symbol", "name", "market_cap_rank", "coingecko_score",
     "developer_score", "community_score", "liquidity_score",
     "public_interest_score"}

SpotColumns ==
    {"crypto_id", "symbol", "spot_price_usd", "market_cap", "volume_24h",
     "change_24h_pct", "last_updated"}

HourlyColumns == {"crypto_id", "symbol", "timestamp", "price_usd", "volume"}

DailyColumns ==
    {"crypto_id", "symbol", "date", "price_usd", "volume", "market_cap"}

\* the five rows of the mock metadata list
MockMetadataRows == 5

\* an item-by-item extract stage over the outcomes of its items
ExtractItems(a, items) ==
    LET n == Len(items)
        h(i) == Handling(a, items[i])
        kept == {i \in 1..n : h(i) \in {"keep", "keep_null"}}
        raised == \/ \E i \in 1..n : h(i) = "raise"
                  \/ (a = "stock_market" /\ kept = {})
        fallback == a = "crypto_metadata" /\ ~raised /\ kept = {}
    IN  [raised |-> raised,
         kept |-> IF raised THEN {} ELSE kept,
         nulls |-> IF raised THEN {}
                   ELSE {i \in 1..n : h(i) = "keep_null"},
         fallback |-> fallback,
         rows |-> IF raised THEN 0
                  ELSE IF fallback THEN MockMetadataRows
                  ELSE Cardinality(kept),
         columns |-> IF a # "crypto_metadata" THEN {}
                     ELSE IF fallback THEN MockMetadataColumns
                     ELSE MetadataColumns]

\* fetch_24h_data / fetch_7d_trends: a non-200 answer skips the coin, an
\* exception ends the function with an empty frame
fetch_series(items) ==
    IF \E i \in 1..Len(items) : items[i] \notin {"ok", "http_error"}
      THEN {}
      ELSE {i \in 1..Len(items) : items[i] = "ok"}

\* fetch_spot_prices: one request for all coins
fetch_spot_prices(o) ==
    IF o \in {"ok", "missing_required"} THEN 1..Len(cryptos) ELSE {}

\* (mutant) mock data with a 12-hour window
_create_mock_data_12h ==
    [spot |-> Len(cryptos), hourly |-> 12 * Len(cryptos),
     daily |-> 7 * Len(cryptos),
     replaces |-> {"spot", "hourly", "daily"},
     spot_columns |-> SpotColumns, hourly_columns |-> HourlyColumns,
     daily_columns |-> DailyColumns]

\* (mutant) mock data for the two series only, the spot frame is left alone
_create_mock_data_series_only ==
    [spot |-> Len(cryptos), hourly |-> 24 * Len(cryptos),
     daily |-> 7 * Len(cryptos),
     replaces |-> {"hourly", "daily"},
     spot_columns |-> SpotColumns, hourly_columns |-> HourlyColumns,
     daily_columns |-> DailyColumns]

\* _create_mock_data: one spot row, 24 hourly rows and 7 daily rows per coin,
\* assigned to all three frames
_create_mock_data ==
    [spot |-> Len(cryptos), hourly |-> 24 * Len(cryptos),
     daily |-> 7 * Len(cryptos),
     replaces |-> {"spot", "hourly", "daily"},
     spot_columns |-> {"crypto_id", "symbol", "spot_price_usd", "market_cap",
                       "volume_24h", "change_24h_pct", "last_updated"},
     hourly_columns |-> {"crypto_id", "symbol", "timestamp", "price_usd",
                         "volume"},
     daily_columns |-> {"crypto_id", "symbol", "date", "price_usd", "volume",
                        "market_cap"}]

\* _stage_diamond_split: the three fetches, then mock data if any of the
\* three frames is empty
_stage_diamond_split(a) ==
    LET spot == fetch_spot_prices(a.spot)
        hourly == fetch_series(a.hourly)
        daily == fetch_series(a.daily)
        mock == spot = {} \/ hourly = {} \/ daily = {}
        Mocked(f) == mock /\ f \in _create_mock_data.replaces
    IN  [raised |-> FALSE,
         fallback |-> mock,
         origin |-> [f \in {"spot", "hourly", "daily"} |->
                        IF Mocked(f) THEN "mock" ELSE "live"],
         kept |-> IF mock THEN {} ELSE hourly \cap daily,
         hourly_kept |-> IF mock THEN {} ELSE hourly,
         daily_kept |-> IF mock THEN {} ELSE daily,
         nulls |-> IF ~mock /\ a.spot = "missing_required" THEN {1} ELSE {},
         spot_rows |-> IF Mocked("spot") THEN _create_mock_data.spot
                       ELSE Cardinality(spot),
         hourly_rows |-> IF Mocked("hourly") THEN _create_mock_data.hourly
                         ELSE a.hourly_points * Cardinality(hourly),
         daily_rows |-> IF Mocked("daily") THEN _create_mock_data.daily
                        ELSE a.daily_points * Cardinality(daily),
         spot_columns |-> IF mock THEN _create_mock_data.spot_columns
                          ELSE SpotColumns,
         hourly_columns |-> IF mock THEN _create_mock_data.hourly_columns
                            ELSE HourlyColumns,
         daily_columns |-> IF mock THEN _create_mock_data.daily_columns
                           ELSE DailyColumns]

\* the outcomes of the requests of one series: all alike, or one failure
\* among delivered ones
SeriesOutcomes ==
    LET n == Len(cryptos)
    IN  {[i \in 1..n |-> o] : o \in {"ok"} \cup TransientFailures}
          \cup {[[i \in 1..n |-> "ok"] EXCEPT ![k] = o] :
                   k \in {1, n}, o \in TransientFailures}

DiamondArgs ==
    [spot : Outcomes, hourly : SeriesOutcomes, daily : SeriesOutcomes,
     hourly_points : {24, 25}, daily_points : {7, 8}]

ExtractArgs(a) ==
    IF a = "crypto_diamond" THEN DiamondArgs
    ELSE [items : [1..ItemCount(a) -> Outcomes]]

\* a database that answers and an environment with AIVEN_PG_URI set
HealthyEnv == [aiven |-> TRUE, dburl |-> FALSE]

\* run() from stage i on, over the documented stage list, with src the rows
\* the sources delivered and a database that does not fail
RECURSIVE RunStages(_, _, _, _, _)
RunStages(p, i, d, src, loaded) ==
    IF i > Len(KnownStages(p))
      THEN [result |-> ResultOnEnd(p), loaded |-> loaded]
    ELSE LET sid == KnownStages(p)[i]
         IN  IF ~StageCanComplete(p, sid, d)
                \/ ~ExtractCanComplete(p, sid, src)
               THEN [result |-> ResultOnRaise(p), loaded |-> loaded]
             ELSE LET d2 == StageEffect(p, sid, d, src)
                  IN  IF sid \notin LoadStages(p)
                        THEN RunStages(p, i + 1, d2, src, loaded)
                      ELSE LET o == LoadOutcome(p, sid, NoTable,
                                                LoadInput(p, sid, d2), 1,
                                                HealthyEnv, TRUE, "none", {})
                           IN  IF o.raised
                                 THEN [result |-> ResultOnRaise(p),
                                       loaded |-> loaded]
                               ELSE RunStages(p, i + 1, d2, src,
                                              loaded \/ o.written)

\* the run of the pipeline around an extract stage that ended as r did
RunAround(a, r) ==
    IF r.raised
      THEN [result |-> ResultOnRaise(AdapterPipeline(a)), loaded |-> FALSE]
    ELSE RunStages(AdapterPipeline(a), 1, InitData(AdapterPipeline(a)),
                   IF r.kept = {} THEN {} ELSE RowIds, FALSE)

NotRun == [result |-> "none", loaded |-> FALSE]

InitExtract ==
    /\ ProcessIdle
    /\ WorkersIdle
    /\ fn \in ItemAdapters \cup {"crypto_diamond"}
    /\ args \in ExtractArgs(fn)
    /\ ret = None

\* the extract stage runs over the answers of its source
Extract ==
    /\ fn \in ItemAdapters \cup {"crypto_diamond"}
    /\ ret = None
    /\ ret' = Some([stage |-> IF fn = "crypto_diamond"
                                THEN _stage_diamond_split(args)
                                ELSE ExtractItems(fn, args.items),
                    run |-> NotRun])
    /\ UNCHANGED <<process, workers, fn, args>>

\* the rest of run(): the stage raised and run() ends, or the later stages
\* and the load stage follow
Continue ==
    /\ fn \in ItemAdapters \cup {"crypto_diamond"}
    /\ ret # None
    /\ ret[1].run = NotRun
    /\ ret' = Some([ret[1] EXCEPT !.run = RunAround(fn, ret[1].stage)])
    /\ UNCHANGED <<process, workers, fn, args>>

NextExtract == Extract \/ Continue

SpecExtract == InitExtract /\ [][NextExtract]_vars

\* the run around the extract stage has ended
Ran == ret # None /\ ret[1].run # NotRun

\* C15: when every fetch call of the crypto-market pipeline returns HTTP 429
\* the run completes (run() returns True, the load executes) with the
\* fallback dataset of 5 metadata rows, 5 spot rows, 120 hourly rows and 35
\* daily rows, under the columns of the live-fetch path
C15_FallbackOnAll429 ==
    /\ (fn = "crypto_metadata" /\ Ran
          /\ \A i \in 1..Len(args.items) : args.items[i] = "http_error")
          => /\ ret[1].run.result = "True" /\ ret[1].run.loaded
             /\ ret[1].stage.fallback
             /\ ret[1].stage.rows = 5
             /\ ret[1].stage.columns = MetadataColumns
    /\ (fn = "crypto_diamond" /\ Ran
          /\ args.spot = "http_error"
          /\ \A i \in 1..Len(cryptos) :
                args.hourly[i] = "http_error" /\ args.daily[i] = "http_error")
          => /\ ret[1].run.result = "True" /\ ret[1].run.loaded
             /\ ret[1].stage.fallback
             /\ ret[1].stage.spot_rows = 5
             /\ ret[1].stage.hourly_rows = 120
             /\ ret[1].stage.daily_rows = 35
             /\ ret[1].stage.spot_columns = SpotColumns
             /\ ret[1].stage.hourly_columns = HourlyColumns
             /\ ret[1].stage.daily_columns = DailyColumns

\* the diamond split has run with every answer a 429 and the run has loaded
\* the mock data
C15_Witness ==
    /\ fn = "crypto_diamond" /\ Ran
    /\ args.spot = "http_error"
    /\ \A i \in 1..Len(cryptos) :
          args.hourly[i] = "http_error" /\ args.daily[i] = "http_error"
    /\ ret[1].stage.fallback
    /\ ret[1].stage.hourly_rows = 120
    /\ ret[1].run.loaded

\* exactly one item failed (request or parsing) and every other was delivered
OneTransient(items) ==
    /\ Cardinality({i \in 1..Len(items) : items[i] \in TransientFailures}) = 1
    /\ \A i \in 1..Len(items) : items[i] \in TransientFailures \cup {"ok"}
    /\ \E i \in 1..Len(items) : items[i] = "ok"

\* C16: when a single HTTP call of an extract stage fails (non-200, timeout,
\* connection error) or one item fails to parse while another item succeeds,
\* only that item is skipped, the stage does not raise, and the run
\* completes with the remaining items
C16_TransientErrorSkipsItem ==
    /\ (fn \in ItemAdapters /\ Ran /\ OneTransient(args.items))
          => /\ ~ret[1].stage.raised
             /\ ~ret[1].stage.fallback
             /\ ret[1].stage.kept
                  = {i \in 1..Len(args.items) : args.items[i] = "ok"}
             /\ ret[1].run.result \in {"True", "None"}
    /\ (fn = "crypto_diamond" /\ Ran /\ args.spot = "ok"
          /\ OneTransient(args.hourly)
          /\ \A i \in 1..Len(cryptos) : args.daily[i] = "ok")
          => /\ ~ret[1].stage.fallback
             /\ ret[1].stage.hourly_kept
                  = {i \in 1..Len(cryptos) : args.hourly[i] = "ok"}
             /\ ret[1].run.result = "True"

\* C17: no source adapter returns a partial row: every row of an extracted
\* dataset has its required fields (pokemon_id, spot_price_usd, title, ...);
\* an item that lacks one is dropped, not kept with a null
C17_NoPartialRows ==
    (fn \in ItemAdapters \cup {"crypto_diamond"} /\ ret # None)
        => ret[1].stage.nulls = {}

\* ------------------------------------------------------ left-join merges
\* number of launch rows on the left of the SpaceX enrichment
MaxLaunches == 2

\* how many rows of the right frame carry one join key
Multiplicities == {0, 1, 2, 41}

\* (mutant) how='inner': a left row without a match yields no row
merge_inner(m) == m

\* how='left': the rows one left row yields when m right rows match its key
merge_left(m) == IF m = 0 THEN 1 ELSE m

RECURSIVE SumOver(_, _)
SumOver(f, S) ==
    IF S = {} THEN 0
    ELSE LET x == CHOOSE y \in S : TRUE
         IN  f[x] + SumOver(f, S \ {x})

\* rows_per_crypto = 200 // len(self.cryptos)
rows_per_crypto == 200 \div Len(cryptos)

\* spot_prices_df.merge(cross_validation_df, on=[crypto_id, symbol],
\* how='left'): left holds one spot row per coin fetched
_stage_feedback_loop(left, right) ==
    [c \in left |-> merge_left(right[c])]

\* anomalies_df.merge(crypto_metadata, how='left'), then head(rows_per_crypto)
\* of every coin
_stage_merge_final(left, right) ==
    [c \in left |-> Min2(rows_per_crypto, merge_left(right[c]))]

RocketIds == {"falcon9", "falconheavy"}

LaunchpadIds == {"ksc_lc_39a"}

\* launches_df.merge(rockets_df, on='rocket_id', how='left') and then
\* .merge(launchpads_df, on='launchpad_id', how='left')
_stage_enrich(launches, rockets, launchpads) ==
    [i \in 1..Len(launches) |->
        merge_left(rockets[launches[i].rocket_id])
          * merge_left(launchpads[launches[i].launchpad_id])]

MergeStages == {"feedback_enrich_spot", "merge_final_data",
                "enrich_and_join"}

CoinMultiplicities ==
    {m \in [1..Len(cryptos) -> Multiplicities] :
        \A c \in 3..Len(cryptos) : m[c] = 1}

MergeArgs(f) ==
    IF f = "enrich_and_join"
      THEN [launches : UNION {[1..n -> [rocket_id : RocketIds,
                                        launchpad_id : LaunchpadIds]] :
                                 n \in 0..MaxLaunches},
            rockets : [RocketIds -> Multiplicities \ {41}],
            launchpads : [LaunchpadIds -> Multiplicities \ {41}]]
      ELSE [left : SUBSET (1..Len(cryptos)), right : CoinMultiplicities]

InitMerge ==
    /\ ProcessIdle
    /\ WorkersIdle
    /\ fn \in MergeStages
    /\ args \in MergeArgs(fn)
    /\ ret = None

\* the merge stage joins its frames
Merge ==
    /\ fn \in MergeStages
    /\ ret = None
    /\ LET out == CASE fn = "feedback_enrich_spot" ->
                        _stage_feedback_loop(args.left, args.right)
                    [] fn = "merge_final_data" ->
                        _stage_merge_final(args.left, args.right)
                    [] fn = "enrich_and_join" ->
                        _stage_enrich(args.launches, args.rockets,
                                      args.launchpads)
       IN  ret' = Some([out |-> out, rows |-> SumOver(out, DOMAIN out)])
    /\ UNCHANGED <<process, workers, fn, args>>

NextMerge == Merge

SpecMerge == InitMerge /\ [][NextMerge]_vars

\* the number of rows on the left of the merge
LeftRows ==
    IF fn = "enrich_and_join" THEN Len(args.launches)
    ELSE Cardinality(args.left)

\* no join key occurs twice on the right side
RightUnique ==
    IF fn = "enrich_and_join"
      THEN /\ \A r \in RocketIds : args.rockets[r] <= 1
           /\ \A l \in LaunchpadIds : args.launchpads[l] <= 1
      ELSE \A c \in 1..Len(cryptos) : args.right[c] <= 1

NoOtherIndicator(r) ==
    /\ ~r.uses_suspicious_port /\ ~r.high_volume_traffic
    /\ ~r.low_entropy_traffic /\ ~r.potential_syn_flood
    /\ ~r.spectral_anomaly
    /\ r.packet_size >= 50 /\ r.packet_size <= 1400

\* C21: a network row with label 1 has risk_score at least 50, and exactly
\* 50 when it has no other indicator; a row with label 0 and no other
\* indicator has threat_level low
C21_LabelScenario ==
    (fn = "network_risk_scoring" /\ ret # None)
        => /\ args.labeled_threat = labeled_threat(1)
                => ret[1].risk_score >= 50
           /\ (args.labeled_threat = labeled_threat(1)
                 /\ NoOtherIndicator(args)) => ret[1].risk_score = 50
           /\ (args.labeled_threat = labeled_threat(0)
                 /\ NoOtherIndicator(args))
                => ret[1].threat_level = Some("low")

\* a row with label 1 and nothing else set has been scored 50
C21_Witness ==
    /\ fn = "network_risk_scoring" /\ ret # None
    /\ args.labeled_threat = labeled_threat(1)
    /\ NoOtherIndicator(args)
    /\ ret[1].risk_score = 50

\* C26: every network row whose risk_score exceeds 30 is flagged
\* requires_investigation, for every combination of risk factors
C26_HighRiskFlagged ==
    (fn = "network_risk_scoring" /\ ret # None /\ ret[1].risk_score > 30)
        => ret[1].requires_investigation

\* ------------------------------------------------- weather fan-out, fan-in
\* self.regions_config, in its order
regions_config == <<"North America", "Europe", "Asia">>

RegionNames == {regions_config[i] : i \in 1..Len(regions_config)}

\* what the API does with the request of one region
FetchAnswers == {"ok", "http_error", "timeout"}

\* hourly rows in one region's answer
ResponseSizes == {2, 67, 134}

\* fetch_region_data: the frame, or None after any exception (the request
\* carries timeout=15, so a silent server ends in an exception too)
fetch_region_data(answer) == IF answer = "ok" THEN "ok" ELSE "failed"

FutureDone(status) == status \in {"ok", "failed"}

\* (mutant) the loop stops at the first completed future
as_completed_first(yielded) == yielded # {}

\* for future in as_completed(futures): the loop ends when every future has
\* been yielded
as_completed_exhausted(yielded) == yielded = RegionNames

\* pd.concat of the stored frames in the order of the dict, then, over 200
\* rows, iloc[::len // 200].head(200); a row is <<region, position>>
_stage_merge(dfs, n) ==
    LET len == Len(dfs) * n
        RowAt(p) == <<dfs[(p \div n) + 1], p % n>>
    IN  IF len > 200
          THEN LET step == len \div 200
                   kept == Min2(200, (len + step - 1) \div step)
               IN  [k \in 1..kept |-> RowAt((k - 1) * step)]
          ELSE [k \in 1..len |-> RowAt(k - 1)]

InitFanOut ==
    /\ ProcessIdle
    /\ fn = "initiate_parallel_fetch"
    /\ args \in [rows : ResponseSizes, answers : [RegionNames -> FetchAnswers]]
    /\ ret = None
    /\ main = [pc |-> "submitting", submitted |-> 0, yielded |-> {}]
    /\ inflight = [r \in RegionNames |-> "unsubmitted"]
    /\ regional_dfs = <<>>
    /\ merged_df = None

\* executor.submit(fetch_region_data, region), region after region
Submit ==
    /\ fn = "initiate_parallel_fetch"
    /\ main.pc = "submitting"
    /\ LET r == regions_config[main.submitted + 1]
       IN  /\ inflight' = [inflight EXCEPT ![r] = "pending"]
           /\ main' = [main EXCEPT
                         !.submitted = @ + 1,
                         !.pc = IF main.submitted + 1 = Len(regions_config)
                                  THEN "as_completed" ELSE @]
    /\ UNCHANGED <<process, call, regional_dfs, merged_df>>

\* a worker thread takes the task of region r
TaskStart(r) ==
    /\ fn = "initiate_parallel_fetch"
    /\ inflight[r] = "pending"
    /\ inflight' = [inflight EXCEPT ![r] = "running"]
    /\ UNCHANGED <<process, call, main, regional_dfs, merged_df>>

\* the task of region r returns
TaskFinish(r) ==
    /\ fn = "initiate_parallel_fetch"
    /\ inflight[r] = "running"
    /\ inflight' = [inflight EXCEPT ![r] = fetch_region_data(args.answers[r])]
    /\ UNCHANGED <<process, call, main, regional_dfs, merged_df>>

\* as_completed yields the finished future of region r; its frame is stored
\* unless it is None
Collect(r) ==
    /\ fn = "initiate_parallel_fetch"
    /\ main.pc = "as_completed"
    /\ r \notin main.yielded
    /\ FutureDone(inflight[r])
    /\ main' = [main EXCEPT !.yielded = @ \cup {r}]
    /\ regional_dfs' = IF inflight[r] = "ok" THEN Append(regional_dfs, r)
                       ELSE regional_dfs
    /\ UNCHANGED <<process, call, inflight, merged_df>>

\* the loop ends and the with block shuts the executor down (wait=True)
JoinWorkers ==
    /\ fn = "initiate_parallel_fetch"
    /\ main.pc = "as_completed"
    /\ as_completed_exhausted(main.yielded)
    /\ \A r \in RegionNames : inflight[r] \notin {"pending", "running"}
    /\ main' = [main EXCEPT !.pc = "joined"]
    /\ UNCHANGED <<process, call, inflight, regional_dfs, merged_df>>

\* merge_regional_data: ValueError without any frame, else concat and cap
MergeRegional ==
    /\ fn = "initiate_parallel_fetch"
    /\ main.pc = "joined"
    /\ IF regional_dfs = <<>>
         THEN /\ main' = [main EXCEPT !.pc = "failed"]
              /\ UNCHANGED merged_df
         ELSE /\ main' = [main EXCEPT !.pc = "merged"]
              /\ merged_df' = Some(_stage_merge(regional_dfs, args.rows))
    /\ UNCHANGED <<process, call, inflight, regional_dfs>>

NextFanOut ==
    \/ Submit
    \/ \E r \in RegionNames : TaskStart(r)
    \/ \E r \in RegionNames : TaskFinish(r)
    \/ \E r \in RegionNames : Collect(r)
    \/ JoinWorkers
    \/ MergeRegional

SpecFanOut == InitFanOut /\ [][NextFanOut]_vars

\* the regions whose task returned a frame
OkRegions == {r \in RegionNames : inflight[r] = "ok"}

\* C22: under every interleaving the merge stage starts only after all three
\* regional tasks have finished, and it works on the frame of every task
\* that succeeded
C22_JoinBarrier ==
    (fn = "initiate_parallel_fetch"
       /\ main.pc \in {"joined", "merged", "failed"})
        => /\ \A r \in RegionNames : FutureDone(inflight[r])
           /\ Range(regional_dfs) = OkRegions
           /\ merged_df # None
                => {row[1] : row \in Range(merged_df[1])} = OkRegions

\* the merge has run on two frames, which were stored in the reverse of
\* their configured order, while the third task failed
C22_Witness ==
    /\ fn = "initiate_parallel_fetch"
    /\ main.pc = "merged"
    /\ regional_dfs = <<"Asia", "North America">>
    /\ inflight["Europe"] = "failed"

\* the succeeded regions in the order of regions_config
ConfiguredOrder ==
    SelectSeq(regions_config, LAMBDA r : r \in OkRegions)

\* C27: the set of rows of the capped merged frame is the same for every
\* order in which the regional tasks complete
C27_OrderIndependentRows ==
    (fn = "initiate_parallel_fetch" /\ main.pc = "merged")
        => Range(merged_df[1])
             = Range(_stage_merge(ConfiguredOrder, args.rows))

\* --------------------------------------------- requests and their timeouts
\* the timeout= argument of the request of each extract stage, in seconds;
\* None where the call passes none and waits for as long as the server does
request_timeout(a) ==
    CASE a = "pokemon_data" -> Some(10)
      [] a = "crypto_metadata" -> Some(15)
      [] a = "weather_analytics" -> Some(15)
      [] a = "hackernews_scraper" -> Some(10)
      [] a = "spacex_launches" -> Some(15)
      [] a = "stock_market" -> None

\* what the server does with one request: it answers, or it never does
ServerBehaviours == {"ok", "http_error", "silent"}

\* the weather requests are in flight together, the others one at a time
Concurrent(a) == a = "weather_analytics"

NextItem == Cardinality(main.handled) + 1

InitHttp ==
    /\ ProcessIdle
    /\ fn \in ItemAdapters
    /\ args \in [servers : [1..ItemCount(fn) -> ServerBehaviours]]
    /\ ret = None
    /\ main = [pc |-> "NOT_STARTED", handled |-> {},
               outcomes |-> [i \in 1..ItemCount(fn) |-> "ok"]]
    /\ inflight = [i \in 1..ItemCount(fn) |-> "unsent"]
    /\ regional_dfs = <<>>
    /\ merged_df = None

\* run() is called
StartRun ==
    /\ fn \in ItemAdapters
    /\ main.pc = "NOT_STARTED"
    /\ main' = [main EXCEPT !.pc = "RUNNING"]
    /\ UNCHANGED <<process, call, inflight, regional_dfs, merged_df>>

\* requests.get(...) for item i
Send(i) ==
    /\ fn \in ItemAdapters
    /\ main.pc = "RUNNING"
    /\ inflight[i] = "unsent"
    /\ Concurrent(fn) \/ i = NextItem
    /\ inflight' = [inflight EXCEPT ![i] = "waiting"]
    /\ UNCHANGED <<process, call, main, regional_dfs, merged_df>>

\* the server's answer arrives
Answer(i) ==
    /\ fn \in ItemAdapters
    /\ inflight[i] = "waiting"
    /\ args.servers[i] # "silent"
    /\ inflight' = [inflight EXCEPT ![i] = "answered"]
    /\ UNCHANGED <<process, call, main, regional_dfs, merged_df>>

\* the socket timeout of the request expires
Timeout(i) ==
    /\ fn \in ItemAdapters
    /\ inflight[i] = "waiting"
    /\ request_timeout(fn) # None
    /\ inflight' = [inflight EXCEPT ![i] = "timed_out"]
    /\ UNCHANGED <<process, call, main, regional_dfs, merged_df>>

\* requests.get returned or raised: the loop body deals with the item
Handle(i) ==
    /\ fn \in ItemAdapters
    /\ main.pc = "RUNNING"
    /\ i \notin main.handled
    /\ Concurrent(fn) \/ i = NextItem
    /\ inflight[i] \in {"answered", "timed_out"}
    /\ LET o == IF inflight[i] = "answered" THEN args.servers[i]
                ELSE "timeout"
       IN  main' = [main EXCEPT
                      !.handled = @ \cup {i},
                      !.outcomes[i] = o,
                      !.pc = IF Handling(fn, o) = "raise" THEN "FAILED"
                             ELSE @]
    /\ UNCHANGED <<process, call, inflight, regional_dfs, merged_df>>

\* the loop is over: the rest of the stage and of run()
EndRun ==
    /\ fn \in ItemAdapters
    /\ main.pc = "RUNNING"
    /\ main.handled = DOMAIN inflight
    /\ LET r == RunAround(fn, ExtractItems(fn, main.outcomes))
       IN  main' = [main EXCEPT
                      !.pc = IF r.result \in {"True", "None"}
                               THEN "COMPLETED" ELSE "FAILED"]
    /\ UNCHANGED <<process, call, inflight, regional_dfs, merged_df>>

NextHttp ==
    \/ StartRun
    \/ \E i \in DOMAIN inflight : Send(i)
    \/ \E i \in DOMAIN inflight : Answer(i)
    \/ \E i \in DOMAIN inflight : Timeout(i)
    \/ \E i \in DOMAIN inflight : Handle(i)
    \/ EndRun

\* the interpreter runs the script on, an answering server answers and a
\* running timer expires
SpecHttp == InitHttp /\ [][NextHttp]_vars /\ WF_vars(NextHttp)

\* C23: every started run eventually reaches COMPLETED or FAILED, also when
\* a server never answers a request
C23_RunTerminates ==
    (fn \in ItemAdapters /\ main.pc = "RUNNING")
        ~> (main.pc \in {"COMPLETED", "FAILED"})

\* ------------------------------------------- row counts through the stages
\* rows a transform stage can receive
InputSizes == {0, 1, 50, 199, 200, 201, 210}

\* PokemonPipeline._stage_transform: columns are added to self.df
Pokemon_stage_transform(n) == n

\* HotelPipeline._stage_transform: a rename and two derived columns
Hotel_stage_transform(n) == n

\* NetworkTrafficPipeline._stage_analyze: columns are added to self.df
_stage_analyze(n) == n

\* NetworkTrafficPipeline._stage_risk_scoring, as a stage over n rows
RiskScoringRows(n) == n

\* HackerNewsPipeline._stage_transform: pd.DataFrame(self.posts).head(200),
\* then derived columns
HackerNews_stage_transform(n) == Min2(200, n)

TransformStages == {"transform_pokemon", "transform_hotel_data",
                    "analyze_traffic", "risk_scoring", "transform_posts"}

\* rows on either side of a branch
MaxBranchRows == 3

\* the columns of a Pokemon row the branch reads
BranchPokemon == [is_legendary : BOOLEAN, is_mythical : BOOLEAN]

\* how many of the five required fields of a launch are not null
BranchLaunches == [non_null : 0..5]

\* what DataFrame.apply(axis=1) followed by a column assignment does on a
\* frame without rows, which differs between pandas releases
ApplyOnEmpty == {"returns", "raises"}

Indices(n) == [i \in 1..n |-> i]

\* (mutant) only the first frame is kept
pd_concat_first(a, b) == a

\* pd.concat([a, b], ignore_index=True)
pd_concat(a, b) == a \o b

\* (is_legendary == True) | (is_mythical == True)
legendary_mask(r) == r.is_legendary \/ r.is_mythical

\* self.df[mask] and self.df[~mask], as the index labels of their rows
_stage_branch(df) ==
    [legendary_df |->
        SelectSeq(Indices(Len(df)), LAMBDA i : legendary_mask(df[i])),
     non_legendary_df |->
        SelectSeq(Indices(Len(df)), LAMBDA i : ~legendary_mask(df[i]))]

\* branch, the two process stages and the merge: the merged frame, or None
\* when a stage raised before the merge
Pokemon_stage_merge_and_load(df, apply_on_empty) ==
    LET b == _stage_branch(df)
    IN  [legendary_df |-> b.legendary_df,
         non_legendary_df |-> b.non_legendary_df,
         merged |-> IF b.non_legendary_df = <<>> /\ apply_on_empty = "raises"
                      THEN None
                    ELSE Some(pd_concat(b.legendary_df, b.non_legendary_df))]

\* non_null_count / len(required_fields) >= 0.8
complete_mask(r) == 10 * r.non_null >= 8 * 5

_stage_quality_branch(df) ==
    [complete_data_df |->
        SelectSeq(Indices(Len(df)), LAMBDA i : complete_mask(df[i])),
     incomplete_data_df |->
        SelectSeq(Indices(Len(df)), LAMBDA i : ~complete_mask(df[i]))]

\* the frames with rows are concatenated; ValueError when there is none
SpaceX_stage_merge_and_load(df) ==
    LET b == _stage_quality_branch(df)
    IN  [complete_data_df |-> b.complete_data_df,
         incomplete_data_df |-> b.incomplete_data_df,
         merged |-> IF b.complete_data_df = <<>>
                       /\ b.incomplete_data_df = <<>>
                      THEN None
                    ELSE Some(pd_concat(b.complete_data_df,
                                        b.incomplete_data_df))]

BranchStages == {"branch_legendary", "data_quality_branch"}

Frames(rows) == UNION {[1..n -> rows] : n \in 0..MaxBranchRows}

RowCountArgs(f) ==
    CASE f \in TransformStages -> [rows : InputSizes]
      [] f = "branch_legendary" ->
           [df : Frames(BranchPokemon), apply_on_empty : ApplyOnEmpty]
      [] f = "data_quality_branch" -> [df : Frames(BranchLaunches)]

InitRowCount ==
    /\ ProcessIdle
    /\ WorkersIdle
    /\ fn \in TransformStages \cup BranchStages
    /\ args \in RowCountArgs(fn)
    /\ ret = None

\* the transform stage runs over its dataset
Transform ==
    /\ fn \in TransformStages
    /\ ret = None
    /\ ret' = Some([rows |->
           CASE fn = "transform_pokemon" -> Pokemon_stage_transform(args.rows)
             [] fn = "transform_hotel_data" -> Hotel_stage_transform(args.rows)
             [] fn = "analyze_traffic" -> _stage_analyze(args.rows)
             [] fn = "risk_scoring" -> RiskScoringRows(args.rows)
             [] fn = "transform_posts" ->
                  HackerNews_stage_transform(args.rows)])
    /\ UNCHANGED <<process, workers, fn, args>>

\* the branch stage, the two process stages and the merge stage run
BranchAndMerge ==
    /\ fn \in BranchStages
    /\ ret = None
    /\ ret' = Some(IF fn = "branch_legendary"
                     THEN LET r == Pokemon_stage_merge_and_load(
                                       args.df, args.apply_on_empty)
                          IN  [first |-> r.legendary_df,
                               second |-> r.non_legendary_df,
                               merged |-> r.merged]
                   ELSE LET r == SpaceX_stage_merge_and_load(args.df)
                        IN  [first |-> r.complete_data_df,
                             second |-> r.incomplete_data_df,
                             merged |-> r.merged])
    /\ UNCHANGED <<process, workers, fn, args>>

NextRowCount == Transform \/ BranchAndMerge

SpecRowCount == InitRowCount /\ [][NextRowCount]_vars

\* C24: every transform stage that is not a branch or a filter (Pokemon,
\* Thailand, network analyze and risk scoring, Hacker News) hands on as many
\* rows as it received
C24_TransformKeepsRowCount ==
    (fn \in TransformStages /\ ret # None) => ret[1].rows = args.rows

\* C25: the branch stage of the Pokemon and SpaceX pipelines splits the
\* dataset into two disjoint subsets that hold every row between them, and
\* the merged dataset has as many rows as the dataset before the branch,
\* also when one branch is empty
C25_BranchMergeConserves ==
    (fn \in BranchStages /\ ret # None)
        => /\ Range(ret[1].first) \cap Range(ret[1].second) = {}
           /\ Range(ret[1].first) \cup Range(ret[1].second)
                = 1..Len(args.df)
           /\ Len(ret[1].first) + Len(ret[1].second) = Len(args.df)
           /\ ret[1].merged # None
                => Len(ret[1].merged[1]) = Len(args.df)

\* the Pokemon merge has run after a branch that left the legendary side
\* empty and put three rows on the other side
C25_Witness ==
    /\ fn = "branch_legendary" /\ ret # None
    /\ ret[1].first = <<>>
    /\ Len(ret[1].second) = 3
    /\ ret[1].merged # None
    /\ Len(ret[1].merged[1]) = 3

\* ------------------------------------------- live or synthetic timeframes
\* one of the three fetches of the diamond split came back without rows
SomeFetchEmpty ==
    \/ fetch_spot_prices(args.spot) = {}
    \/ fetch_series(args.hourly) = {}
    \/ fetch_series(args.daily) = {}

\* C28: after the timeframe extraction of the crypto-market pipeline the
\* spot, hourly and daily datasets are all live or all synthetic; when one
\* fetch yields no rows all three are mock data, the live rows are gone and
\* the run still reports success
C28_AllLiveOrAllMock ==
    (fn = "crypto_diamond" /\ Ran)
        => LET s == ret[1].stage
           IN  /\ s.origin["spot"] = s.origin["hourly"]
               /\ s.origin["hourly"] = s.origin["daily"]
               /\ SomeFetchEmpty
                    => /\ s.origin["spot"] = "mock"
                       /\ s.spot_rows = 5 /\ s.hourly_rows = 120
                       /\ s.daily_rows = 35
                       /\ s.hourly_kept = {} /\ s.daily_kept = {}
                       /\ ret[1].run.result = "True"
               /\ ~SomeFetchEmpty => s.origin["spot"] = "live"

\* the spot and hourly fetches delivered rows, the daily one did not, and
\* the run has ended with mock data in all three frames
C28_Witness ==
    /\ fn = "crypto_diamond" /\ Ran
    /\ fetch_spot_prices(args.spot) # {}
    /\ fetch_series(args.hourly) # {}
    /\ fetch_series(args.daily) = {}
    /\ ret[1].stage.origin["spot"] = "mock"
    /\ ret[1].run.result = "True"

\* ------------------------------------------------------- the export script
\* pipeline_table_map, in the order the loop visits it
pipeline_table_map ==
    << <<"thailand_hotels", "hotel_listings">>,
       <<"pokemon_data", "pokemon_data">>,
       <<"spacex_launches", "spacex_launch_analytics">>,
       <<"weather_analytics", "weather_analytics">>,
       <<"hackernews_scraper", "hackernews_posts">>,
       <<"network_traffic", "network_traffic_analysis">>,
       <<"stock_market", "stock_market_analytics">>,
       <<"crypto_market", "crypto_market_analysis">>,
       <<"csv_kaggle", "customer_shopping_data">> >>

TableStates == {"exists", "missing"}

\* cursor.execute on a psycopg2 connection that is not in autocommit mode:
\* a statement that fails aborts the transaction, and until a rollback every
\* further statement on the connection fails as well
cursor_execute(txn, table) ==
    IF txn = "aborted" THEN [raised |-> TRUE, txn |-> "aborted"]
    ELSE IF table = "missing" THEN [raised |-> TRUE, txn |-> "aborted"]
    ELSE [raised |-> FALSE, txn |-> "open"]

InitExport ==
    /\ ProcessIdle
    /\ fn = "export_data"
    /\ args \in [tables : [1..Len(pipeline_table_map) -> TableStates],
                 connect : {"ok", "fails"}]
    /\ ret = None
    /\ main = [pc |-> "connect", i |-> 1, txn |-> "none", conn |-> "none",
               exported |-> {}, failed |-> {}, success_reported |-> FALSE,
               exit |-> -1]
    /\ inflight = <<>>
    /\ regional_dfs = <<>>
    /\ merged_df = <<>>

\* conn = get_connection(); an exception is reported and raised again
ExportConnect ==
    /\ fn = "export_data"
    /\ main.pc = "connect"
    /\ main' = IF args.connect = "ok"
                 THEN [main EXCEPT !.pc = "loop", !.conn = "open",
                                   !.txn = "idle"]
                 ELSE [main EXCEPT !.pc = "exited", !.exit = 1]
    /\ UNCHANGED <<process, call, inflight, regional_dfs, merged_df>>

\* one pass of the loop: query the table and write the file, or print the
\* failure and continue
ExportTable ==
    /\ fn = "export_data"
    /\ main.pc = "loop"
    /\ main.i <= Len(pipeline_table_map)
    /\ LET id == pipeline_table_map[main.i][1]
           r == cursor_execute(main.txn, args.tables[main.i])
       IN  main' = [main EXCEPT
                      !.i = @ + 1,
                      !.txn = r.txn,
                      !.exported = IF r.raised THEN @ ELSE @ \cup {id},
                      !.failed = IF r.raised THEN @ \cup {id} ELSE @]
    /\ UNCHANGED <<process, call, inflight, regional_dfs, merged_df>>

\* after the loop: conn.close() and the closing message
ExportEnd ==
    /\ fn = "export_data"
    /\ main.pc = "loop"
    /\ main.i > Len(pipeline_table_map)
    /\ main' = [main EXCEPT !.pc = "exited", !.conn = "closed",
                            !.success_reported = TRUE, !.exit = 0]
    /\ UNCHANGED <<process, call, inflight, regional_dfs, merged_df>>

NextExport == ExportConnect \/ ExportTable \/ ExportEnd

SpecExport == InitExport /\ [][NextExport]_vars

\* C29: a failure to export one pipeline's table is isolated: every later
\* pipeline of the map whose table exists is still exported over the same
\* connection, and the script does not report overall success when an
\* export failed
C29_ExportFailureIsolated ==
    (fn = "export_data" /\ main.pc = "exited" /\ main.conn = "closed")
        => /\ \A j \in 1..Len(pipeline_table_map) :
                 args.tables[j] = "exists"
                    => pipeline_table_map[j][1] \in main.exported
           /\ main.failed # {} => ~main.success_reported

\* --------------------------------------------------- connections released
\* C30: every database connection or engine a load stage or the
\* crypto-prices run opened is closed or disposed when the operation
\* returns or raises, on the success path and on every failure path
C30_ConnectionsReleased ==
    (lastLoad.stage # "none" /\ lastLoad.opened) => lastLoad.closed

====
